---- MODULE Spec2Model ----
(***************************************************************************)
(* Retrieval pipeline of the hybrid RAG service                           *)
(* (admin_site/functions/search.py and reranking.py), the life of the     *)
(* element documents it searches (document_processing.py, embeddings.py)  *)
(* and the keyword counters of ingestion (document_processing.py).        *)
(*                                                                         *)
(* Numbers.  Similarities, scores, thresholds and confidences are floats  *)
(* in the code; here they are integers counting hundredths (0.95 is 95),  *)
(* a grid on which calculate_relevance_score is exact: (s - 25) * 100 is  *)
(* always a multiple of 50.                                                *)
(*                                                                         *)
(* Texts.  A text (the query, a semantic term, what is handed to the       *)
(* embedding service) is the sequence of its words; the empty sequence is *)
(* the empty string.  Joining texts with single spaces concatenates their *)
(* word sequences.  Exact terms are single keywords and stay strings.     *)
(*                                                                         *)
(* Results carry the fields the retrieval logic reads or decides          *)
(* (documentId, collectionId, matchType, rawSimilarity, weightedScore,    *)
(* elementId, scoreBreakdown, rerank fields); display fields (summary,    *)
(* fileName, ...) are copied through by the code and left out.            *)
(***************************************************************************)
EXTENDS Integers, Sequences, FiniteSets, TLC

VARIABLES
    docs,                  \* <collection>_documents: id -> stored fields
    elems,                 \* collection group "elements": id -> stored fields
    api_key,               \* os.environ GEMINI_API_KEY is set
    pc,                    \* position of the running request
    req,                   \* req.data of classify_and_search
    classification,        \* what classify_query returned
    results,               \* classify_and_search: local `results`
    result_sets,           \* classify_and_search: the lists its search calls
                           \* returned (primary_results, ...), in call order
    collections_searched,  \* classify_and_search: local `collections_searched`
    sc,                    \* frame of the running search_* call
    rr,                    \* frame of the rerank_results call
    score_call,            \* frame of a calculate_relevance_score call
    calls,                 \* remote calls the request or call issued, in order
    schemas,               \* _system/config/schemas: ids of the collections
    response,              \* what the entry point returned
    document_keywords,     \* schema document of the collection:
                           \* classifier_hints.document_keywords, key -> count
    runs,                  \* the process_document runs: position and locals
    documents,             \* <collection>_documents as ingestion sees them:
                           \* id -> status, embedding, content
    handlers,              \* invocations of the ingestion functions: position
                           \* and locals
    elements,              \* <collection>_documents/<doc_id>/elements of one
                           \* parent document: the ids stored there
    trigger_doc,           \* the document on_content_write watches
    events,                \* writes to it whose invocation has not run yet
    chains,                \* per client write to it, the embedding writes
                           \* its invocations made
    all_docs,              \* the collection batch_backfill works on
    bf                     \* batch_backfill: position and last response

vars == <<docs, elems, api_key, pc, req, classification, results,
          result_sets, collections_searched, sc, rr, score_call, calls, schemas,
          response, document_keywords, runs, documents, handlers,
          elements, trigger_doc, events, chains, all_docs, bf>>

\* the state of ingestion, which retrieval leaves alone
lifecycle == <<documents, handlers>>
maintenance == <<trigger_doc, events, chains, all_docs, bf>>
ingest == <<document_keywords, runs, lifecycle, elements, maintenance>>

\* the state of retrieval, which ingestion leaves alone
retrieval == <<docs, elems, api_key, pc, req, classification, results,
               result_sets, collections_searched, sc, rr, score_call, calls,
               schemas, response>>

(***************************************************************************)
(* Bounds of the model.                                                    *)
(***************************************************************************)
MaxLimit == 2     \* largest `limit` of a direct search or rerank call
MaxRequestLimit == 4   \* largest `limit` of a classify_and_search request
MaxKeywords == 2  \* longest keyword list the extraction returns
MaxRanked == 2    \* longest ranked_indices list the rerank model returns

(***************************************************************************)
(* Program constants.                                                      *)
(***************************************************************************)
One == 100              \* 1.0
BandLow == 25           \* 0.25
BandWidth == 50         \* 0.5
ExactScore == 95        \* 0.95
SecondaryCutoff == 30   \* 0.3
NoSim == -1000          \* Python None where a similarity is expected
ElementCap == 50        \* `all_elements[:50]`

(***************************************************************************)
(* Small sets the inputs are drawn from.                                   *)
(***************************************************************************)
Collections == {"A", "B"}
DocOrder == <<"d1", "d2", "d3">>          \* document ids in id order
ElemOrder == <<"e1", "e2", "e3">>         \* element ids in id order
Keywords == {"K1", "K2"}
\* what vector_distance may hold: find_nearest with distance_result_field
\* always reports a distance, so None is not among them
SimValues == {20, 70, 80}
Thresholds == {30, 98}
Query == <<"q">>

Range(s) == {s[i] : i \in 1..Len(s)}
DocIds == Range(DocOrder)
ElemIds == Range(ElemOrder)

Min(a, b) == IF a < b THEN a ELSE b
Max(a, b) == IF a > b THEN a ELSE b

\* Python s[:n] for n >= 0
Take(s, n) == SubSeq(s, 1, Min(n, Len(s)))

\* all sequences over S of length <= n
SeqsUpTo(S, n) == UNION {[1..k -> S] : k \in 0..n}

(***************************************************************************)
(* calculate_relevance_score                                               *)
(***************************************************************************)
calculate_relevance_score_NoClamp(similarity) ==
    IF similarity = NoSim THEN 0
    ELSE ((similarity - BandLow) * One) \div BandWidth

calculate_relevance_score(similarity) ==
    IF similarity = NoSim THEN 0
    ELSE Max(0, Min(One, ((similarity - BandLow) * One) \div BandWidth))

(***************************************************************************)
(* list.sort(key=weightedScore, reverse=True): stable, descending.         *)
(***************************************************************************)
RECURSIVE InsertByScore(_, _)
InsertByScore(sorted, r) ==
    IF sorted = <<>> THEN <<r>>
    ELSE IF Head(sorted).weightedScore >= r.weightedScore
         THEN <<Head(sorted)>> \o InsertByScore(Tail(sorted), r)
         ELSE <<r>> \o sorted

RECURSIVE SortByScore(_)
SortByScore(s) ==
    IF s = <<>> THEN <<>>
    ELSE InsertByScore(SortByScore(SubSeq(s, 1, Len(s) - 1)), s[Len(s)])

(***************************************************************************)
(* The backing store's queries.                                            *)
(***************************************************************************)
\* docs_ref.where("content.keywords", "array_contains", term).limit(n).get()
KeywordQuery(collection_id, term, n) ==
    LET Hit(d) == docs[d].collection = collection_id /\ term \in docs[d].keywords
    IN  Take(SelectSeq(DocOrder, Hit), n)

RECURSIVE InsertByDistance(_, _)
InsertByDistance(sorted, c) ==
    IF sorted = <<>> THEN <<c>>
    ELSE IF Head(sorted).vector_distance >= c.vector_distance
         THEN <<Head(sorted)>> \o InsertByDistance(Tail(sorted), c)
         ELSE <<c>> \o sorted

RECURSIVE SortByDistance(_)
SortByDistance(s) ==
    IF s = <<>> THEN <<>>
    ELSE InsertByDistance(SortByDistance(SubSeq(s, 1, Len(s) - 1)), s[Len(s)])

\* find_nearest(..., DOT_PRODUCT, limit=n, distance_result_field="vector_distance")
\* over the candidates `cands` (ids holding a vector, in id order): the store
\* reports a similarity for each candidate and returns the n nearest, nearest
\* first.  The vectors themselves are outside the model: a stored vector is
\* represented by `sims`, the similarities it can have to a query vector,
\* and every assignment within them is possible.
NearestOutcomes(store, cands, n) ==
    {Take(SortByDistance([i \in 1..Len(cands) |->
                             [id |-> cands[i], vector_distance |-> f[i]]]), n) :
        f \in {g \in [1..Len(cands) -> SimValues] :
                  \A i \in 1..Len(cands) : g[i] \in store[cands[i]].sims}}

\* the documents of <collection_id>_documents that hold contentEmbedding.vector
DocCandidates(collection_id) ==
    LET Has(d) == docs[d].collection = collection_id /\ docs[d].hasVector
    IN  SelectSeq(DocOrder, Has)

\* collection_group("elements").where(collectionId ==).where(status == "ready")
ElementCandidates_AnyStatus(collection_id) ==
    LET Has(e) == /\ elems[e].collectionId = collection_id
                  /\ elems[e].hasVector
    IN  SelectSeq(ElemOrder, Has)

ElementCandidates(collection_id) ==
    LET Has(e) == /\ elems[e].collectionId = collection_id
                  /\ elems[e].status = "ready"
                  /\ elems[e].hasVector
    IN  SelectSeq(ElemOrder, Has)

(***************************************************************************)
(* search_collection, standard mode                                        *)
(***************************************************************************)
ExactResult(doc_id, collection_id) ==
    [documentId |-> doc_id, collectionId |-> collection_id,
     rawSimilarity |-> NoSim, weightedScore |-> ExactScore,
     matchType |-> "exact"]

SemanticResult(doc_id, collection_id, similarity) ==
    [documentId |-> doc_id, collectionId |-> collection_id,
     rawSimilarity |-> similarity,
     weightedScore |-> calculate_relevance_score(similarity),
     matchType |-> "semantic"]

\* `similarity is not None and similarity < threshold`
BelowThreshold_OnScore(similarity, threshold) ==
    similarity # NoSim /\ calculate_relevance_score(similarity) < threshold

BelowThreshold(similarity, threshold) ==
    similarity # NoSim /\ similarity < threshold

\* `if doc.id in seen_doc_ids: continue`
AlreadySeen_Never(doc_id, seen_doc_ids) == FALSE

AlreadySeen(doc_id, seen_doc_ids) == doc_id \in seen_doc_ids

\* for doc in keyword_query.get(): ...      acc = [results, seen_doc_ids]
RECURSIVE ExactDocs(_, _, _)
ExactDocs(hits, collection_id, acc) ==
    IF hits = <<>> THEN acc
    ELSE IF AlreadySeen(Head(hits), acc.seen_doc_ids)
         THEN ExactDocs(Tail(hits), collection_id, acc)
         ELSE ExactDocs(Tail(hits), collection_id,
                  [results |-> Append(acc.results,
                                      ExactResult(Head(hits), collection_id)),
                   seen_doc_ids |-> acc.seen_doc_ids \cup {Head(hits)}])

\* Phase 1: for term in exact_terms: ...
RECURSIVE ExactPhase(_, _, _, _)
ExactPhase(terms, collection_id, limit, acc) ==
    IF terms = <<>> THEN acc
    ELSE ExactPhase(Tail(terms), collection_id, limit,
             ExactDocs(KeywordQuery(collection_id, Head(terms), limit),
                       collection_id, acc))

\* Phase 2: for doc in vector_query.get(): ...
RECURSIVE SemanticPhase(_, _, _, _)
SemanticPhase(near, collection_id, threshold, acc) ==
    IF near = <<>> THEN acc
    ELSE LET doc == Head(near) IN
         IF AlreadySeen(doc.id, acc.seen_doc_ids)
         THEN SemanticPhase(Tail(near), collection_id, threshold, acc)
         ELSE IF BelowThreshold(doc.vector_distance, threshold)
         THEN SemanticPhase(Tail(near), collection_id, threshold, acc)
         ELSE SemanticPhase(Tail(near), collection_id, threshold,
                  [results |-> Append(acc.results,
                                      SemanticResult(doc.id, collection_id,
                                                     doc.vector_distance)),
                   seen_doc_ids |-> acc.seen_doc_ids \cup {doc.id}])

\* `" ".join(terms)`
RECURSIVE Join(_)
Join(terms) == IF terms = <<>> THEN <<>> ELSE Head(terms) \o Join(Tail(terms))

\* `search_text = " ".join(semantic_terms) if semantic_terms else query`
SearchText_RawQuery(semantic_terms, query) == query

SearchText(semantic_terms, query) ==
    IF semantic_terms # <<>> THEN Join(semantic_terms) ELSE query

\* what standard-mode search_collection returns: results.sort(...); return results
StandardReturn(acc, limit) == SortByScore(acc.results)

(***************************************************************************)
(* search_elements                                                         *)
(***************************************************************************)
ElementResult(elem_id, collection_id, similarity) ==
    [documentId |-> elems[elem_id].parentDocumentId,
     collectionId |-> collection_id,
     rawSimilarity |-> similarity,
     weightedScore |-> calculate_relevance_score(similarity),
     matchType |-> "element",
     elementId |-> elem_id,
     parentDocumentId |-> elems[elem_id].parentDocumentId]

\* for doc in vector_query.get(): ...
RECURSIVE ElementLoop(_, _, _, _)
ElementLoop(near, collection_id, threshold, out) ==
    IF near = <<>> THEN out
    ELSE IF BelowThreshold(Head(near).vector_distance, threshold)
         THEN ElementLoop(Tail(near), collection_id, threshold, out)
         ELSE ElementLoop(Tail(near), collection_id, threshold,
                  Append(out, ElementResult(Head(near).id, collection_id,
                                            Head(near).vector_distance)))

(***************************************************************************)
(* search_collection_debug                                                 *)
(*   doc_scores is a dict in insertion order: here a sequence of           *)
(*   [documentId, scoreBreakdown].  fullQueryScore is <<>> for None and    *)
(*   <<[similarity, score]>> once the full-query pass has seen the doc.    *)
(***************************************************************************)
EmptyBreakdown ==
    [exactMatches |-> <<>>, semanticScores |-> <<>>, fullQueryScore |-> <<>>]

InDocScores(doc_scores, doc_id) ==
    \E i \in 1..Len(doc_scores) : doc_scores[i].documentId = doc_id

EntryIndex(doc_scores, doc_id) ==
    CHOOSE i \in 1..Len(doc_scores) : doc_scores[i].documentId = doc_id

get_or_init_doc(doc_scores, doc_id) ==
    IF InDocScores(doc_scores, doc_id) THEN doc_scores
    ELSE Append(doc_scores,
                [documentId |-> doc_id, scoreBreakdown |-> EmptyBreakdown])

\* entry = get_or_init_doc(...); entry["scoreBreakdown"]["exactMatches"].append(...)
AddExactMatch(doc_scores, doc_id, term) ==
    LET ds == get_or_init_doc(doc_scores, doc_id)
        i  == EntryIndex(ds, doc_id)
    IN  [ds EXCEPT ![i].scoreBreakdown.exactMatches = Append(@, term)]

\* entry["scoreBreakdown"]["semanticScores"].append(...)
AddSemanticScore(doc_scores, doc_id, term, similarity) ==
    LET ds == get_or_init_doc(doc_scores, doc_id)
        i  == EntryIndex(ds, doc_id)
    IN  [ds EXCEPT ![i].scoreBreakdown.semanticScores =
            Append(@, [term |-> term, similarity |-> similarity,
                       score |-> calculate_relevance_score(similarity)])]

\* entry["scoreBreakdown"]["fullQueryScore"] = {...}
SetFullQueryScore(doc_scores, doc_id, similarity) ==
    LET ds == get_or_init_doc(doc_scores, doc_id)
        i  == EntryIndex(ds, doc_id)
    IN  [ds EXCEPT ![i].scoreBreakdown.fullQueryScore =
            <<[similarity |-> similarity,
               score |-> calculate_relevance_score(similarity)]>>]

\* Phase 1, inner loop
RECURSIVE DebugExactDocs(_, _, _)
DebugExactDocs(hits, term, doc_scores) ==
    IF hits = <<>> THEN doc_scores
    ELSE DebugExactDocs(Tail(hits), term,
                        AddExactMatch(doc_scores, Head(hits), term))

\* Phase 1: keyword lookups are limited to limit * 2
RECURSIVE DebugExactPhase(_, _, _, _)
DebugExactPhase(terms, collection_id, limit, doc_scores) ==
    IF terms = <<>> THEN doc_scores
    ELSE DebugExactPhase(Tail(terms), collection_id, limit,
             DebugExactDocs(KeywordQuery(collection_id, Head(terms), limit * 2),
                            Head(terms), doc_scores))

\* Phase 2, one term: for doc in term_results: ...
RECURSIVE DebugSemanticDocs(_, _, _)
DebugSemanticDocs(near, term, doc_scores) ==
    IF near = <<>> THEN doc_scores
    ELSE DebugSemanticDocs(Tail(near), term,
             AddSemanticScore(doc_scores, Head(near).id, term,
                              Head(near).vector_distance))

\* Phase 3: for doc in full_results: ...
RECURSIVE DebugFullDocs(_, _)
DebugFullDocs(near, doc_scores) ==
    IF near = <<>> THEN doc_scores
    ELSE DebugFullDocs(Tail(near),
             SetFullQueryScore(doc_scores, Head(near).id,
                               Head(near).vector_distance))

\* for sem_score in breakdown["semanticScores"]: if score > best_score: ...
RECURSIVE BestOfSemantic(_, _)
BestOfSemantic(semanticScores, best_score) ==
    IF semanticScores = <<>> THEN best_score
    ELSE BestOfSemantic(Tail(semanticScores),
             IF Head(semanticScores).score > best_score
             THEN Head(semanticScores).score ELSE best_score)

\* Phase 4: best_score of one entry
BestScore_FirstSignal(breakdown) ==
    IF breakdown.exactMatches # <<>> THEN ExactScore
    ELSE IF breakdown.semanticScores # <<>>
         THEN breakdown.semanticScores[1].score
         ELSE IF breakdown.fullQueryScore # <<>>
              THEN breakdown.fullQueryScore[1].score ELSE 0

BestScore(breakdown) ==
    LET s0 == IF breakdown.exactMatches # <<>> THEN ExactScore ELSE 0
        s1 == BestOfSemantic(breakdown.semanticScores, s0)
    IN  IF breakdown.fullQueryScore # <<>>
           /\ breakdown.fullQueryScore[1].score > s1
        THEN breakdown.fullQueryScore[1].score ELSE s1

DebugMatchType(breakdown) ==
    IF breakdown.exactMatches # <<>> THEN "exact" ELSE "semantic"

\* `if best_score < threshold and match_type != "exact": continue`
DebugFiltered_ExactToo(breakdown, threshold) ==
    BestScore(breakdown) < threshold

DebugFiltered(breakdown, threshold) ==
    BestScore(breakdown) < threshold /\ DebugMatchType(breakdown) # "exact"

DebugResult(entry, collection_id) ==
    [documentId |-> entry.documentId, collectionId |-> collection_id,
     rawSimilarity |-> IF entry.scoreBreakdown.fullQueryScore # <<>>
                       THEN entry.scoreBreakdown.fullQueryScore[1].similarity
                       ELSE NoSim,
     weightedScore |-> BestScore(entry.scoreBreakdown),
     matchType |-> DebugMatchType(entry.scoreBreakdown),
     scoreBreakdown |-> entry.scoreBreakdown]

\* Phase 4: for doc_id, entry in doc_scores.items(): ...
RECURSIVE DebugBuild(_, _, _, _)
DebugBuild(doc_scores, collection_id, threshold, out) ==
    IF doc_scores = <<>> THEN out
    ELSE IF DebugFiltered(Head(doc_scores).scoreBreakdown, threshold)
         THEN DebugBuild(Tail(doc_scores), collection_id, threshold, out)
         ELSE DebugBuild(Tail(doc_scores), collection_id, threshold,
                         Append(out, DebugResult(Head(doc_scores), collection_id)))

\* results.sort(...); results = results[:limit]; return results
DebugReturn(doc_scores, collection_id, threshold, limit) ==
    Take(SortByScore(DebugBuild(doc_scores, collection_id, threshold, <<>>)), limit)

(***************************************************************************)
(* rerank_results                                                          *)
(*   ranked_indices is whatever the model answered.  A Python list index   *)
(*   k is valid for -len <= k < len, a negative k counting from the end;   *)
(*   below -len results[k] raises IndexError, which the function's         *)
(*   `except Exception` turns into the fallback.  rerankExplanation is a   *)
(*   display field and left out.                                           *)
(***************************************************************************)
PyIndex(list, k) == IF k >= 0 THEN list[k + 1] ELSE list[Len(list) + k + 1]

WithRerank(result, rerankPosition, originalPosition) ==
    [f \in DOMAIN result \cup {"rerankPosition", "originalPosition"} |->
        IF f = "rerankPosition" THEN rerankPosition
        ELSE IF f = "originalPosition" THEN originalPosition
        ELSE result[f]]

\* `if original_idx >= len(results) or original_idx in seen_indices: continue`
SkipIndex_NoDedup(original_idx, list, seen_indices) ==
    original_idx >= Len(list)

SkipIndex(original_idx, list, seen_indices) ==
    original_idx >= Len(list) \/ original_idx \in seen_indices

\* for new_rank, original_idx in enumerate(ranked_indices): ...
\*   st = [reranked_results, seen_indices, raised]
RECURSIVE RankedLoop(_, _, _, _)
RankedLoop(ranked_indices, new_rank, list, st) ==
    IF new_rank >= Len(ranked_indices) \/ st.raised THEN st
    ELSE LET original_idx == ranked_indices[new_rank + 1] IN
         IF SkipIndex(original_idx, list, st.seen_indices)
         THEN RankedLoop(ranked_indices, new_rank + 1, list, st)
         ELSE IF original_idx < -Len(list)
         THEN [st EXCEPT !.raised = TRUE]
         ELSE RankedLoop(ranked_indices, new_rank + 1, list,
                  [reranked_results |->
                       Append(st.reranked_results,
                              WithRerank(PyIndex(list, original_idx),
                                         new_rank, original_idx)),
                   seen_indices |-> st.seen_indices \cup {original_idx},
                   raised |-> FALSE])

\* for i, result in enumerate(results): if i not in seen_indices: ...
RECURSIVE AppendMissing(_, _, _, _)
AppendMissing(i, list, seen_indices, reranked_results) ==
    IF i >= Len(list) THEN reranked_results
    ELSE AppendMissing(i + 1, list, seen_indices,
             IF i \notin seen_indices
             THEN Append(reranked_results,
                         WithRerank(list[i + 1], Len(reranked_results), i))
             ELSE reranked_results)

\* the list built by lines 124-145, before `[:limit]`
Reranked(ranked_indices, list) ==
    LET st == RankedLoop(ranked_indices, 0, list,
                         [reranked_results |-> <<>>, seen_indices |-> {},
                          raised |-> FALSE])
    IN  [raised |-> st.raised,
         reranked_results |->
             IF st.raised THEN <<>>
             ELSE AppendMissing(0, list, st.seen_indices, st.reranked_results)]

\* `return reranked_results[:limit]`
RerankReturn_All(reranked_results, limit) == reranked_results

RerankReturn(reranked_results, limit) == Take(reranked_results, limit)

\* the integers the model may put into ranked_indices for n results
\* (-1 stands for the negative indices Python accepts, -(n + 1) for those
\* it rejects)
RankedValues(n) == {-(n + 1), -1} \cup 0..n

\* `return results[:limit]` of the no-key path and of the except handler
Fallback_Untruncated(list, limit) == list

Fallback(list, limit) == Take(list, limit)

\* what one rerank_results(query, classification, list, limit) call does:
\* outcome, the list built before truncation, the value returned.
\*   call_failed: generate_content raised; unparseable: json.loads raised;
\*   index_error: results[original_idx] raised
RerankOutcomes(list, limit) ==
    IF list = <<>>
    THEN {[outcome |-> "empty", ranked_indices |-> <<>>, built |-> <<>>,
           returned |-> list]}
    ELSE IF ~api_key
    THEN {[outcome |-> "no_key", ranked_indices |-> <<>>, built |-> <<>>,
           returned |-> Fallback(list, limit)]}
    ELSE {[outcome |-> o, ranked_indices |-> <<>>, built |-> <<>>,
           returned |-> Fallback(list, limit)] :
          o \in {"call_failed", "unparseable"}}
         \cup
         {LET b == Reranked(ri, list) IN
            IF b.raised
            THEN [outcome |-> "index_error", ranked_indices |-> ri,
                  built |-> <<>>, returned |-> Fallback(list, limit)]
            ELSE [outcome |-> "reranked", ranked_indices |-> ri,
                  built |-> b.reranked_results,
                  returned |-> RerankReturn(b.reranked_results, limit)] :
          ri \in SeqsUpTo(RankedValues(Len(list)), MaxRanked)}

(***************************************************************************)
(* Frames and the call log                                                 *)
(***************************************************************************)
NoCall == [fn |-> "none"]
NoRerank == [outcome |-> "none"]
NoScoreCall == [done |-> FALSE, similarity |-> <<>>, score |-> <<>>]
NoRequest == [query |-> <<>>]
NoClassification == [primary_collection |-> "none"]
NoResponse == [kind |-> "none"]

(***************************************************************************)
(* Ingestion: process_document and update_collection_keywords              *)
(*   (admin_site/functions/document_processing.py).  A keyword is the      *)
(*   sequence of its characters.                                           *)
(***************************************************************************)
Runs == {"r1", "r2"}          \* concurrent process_document runs
RunDoc(r) == IF r = "r1" THEN "d1" ELSE "d2"    \* on documents of collection A

IngestKeywords ==
    {<<"a">>, <<"a", ".", "b">>, <<"a", "/", "b">>, <<"a", "_", "b">>}

\* `safe_keyword = keyword.replace(".", "_").replace("/", "_")`
safe_keyword(keyword) ==
    [i \in 1..Len(keyword) |->
        IF keyword[i] \in {".", "/"} THEN "_" ELSE keyword[i]]

SafeKeys == {safe_keyword(k) : k \in IngestKeywords}

\* `updates[field_path] = Increment(1)` for each keyword: a dict, one entry
\* per distinct field path
Updates(keywords) == {safe_keyword(keywords[i]) : i \in 1..Len(keywords)}

\* the server applying Increment(n) to a field holding `current`
ApplyIncrement_Overwrite(current, n) == n

ApplyIncrement(current, n) == current + n

NoRuns ==
    [r \in Runs |-> [pc |-> "none", doc_id |-> RunDoc(r),
                     keywords |-> <<>>, updated |-> FALSE]]

NoCounts == [k \in SafeKeys |-> 0]

\* the counters before the runs: "a" was counted three times already
InitialCounts == [k \in SafeKeys |-> IF k = <<"a">> THEN 3 ELSE 0]

\* process_document lines 70-111: the analysis returns the metadata, the
\* document is updated; `keywords = metadata.get("keywords", [])`
Analyze(r) ==
    /\ runs[r].pc = "start"
    /\ \E keywords \in SeqsUpTo(IngestKeywords, MaxKeywords) :
          runs' = [runs EXCEPT ![r].pc = "analyzed", ![r].keywords = keywords]
    /\ UNCHANGED <<document_keywords, lifecycle, elements, maintenance, retrieval>>

\* process_document lines 113-116 and update_collection_keywords:
\* `if keywords:` one schema_ref.update(updates), which the server applies
\* atomically, or which raises (caught and logged, nothing written)
UpdateCollectionKeywords(r) ==
    /\ runs[r].pc = "analyzed"
    /\ \E ok \in BOOLEAN :
          /\ ok => runs[r].keywords # <<>>
          /\ runs' = [runs EXCEPT ![r].pc = "done", ![r].updated = ok]
          /\ document_keywords' =
                 IF ok
                 THEN [k \in SafeKeys |->
                          IF k \in Updates(runs[r].keywords)
                          THEN ApplyIncrement(document_keywords[k], 1)
                          ELSE document_keywords[k]]
                 ELSE document_keywords
    /\ UNCHANGED <<lifecycle, elements, maintenance, retrieval>>

(***************************************************************************)
(* Ingestion: the life of a document                                       *)
(*   (admin_site/functions/document_processing.py, embeddings.py, admin.py,*)
(*   python_utilities/reset_embeddings.py).  Each Firestore read, query or *)
(*   update is atomic; invocations of the functions interleave between     *)
(*   them.  The element documents process_document writes are modelled     *)
(*   with the elements subcollection below.                                *)
(***************************************************************************)
StoredOrder == <<"d1", "d2">>       \* the documents of the collection, by id
StoredDocs == Range(StoredOrder)
Invocations == {"i1", "i2"}   \* each runs one function once

\* what the analysis may return as metadata: nothing that gives text, a
\* summary alone, or a summary with keywords (one, one repeated, two that
\* differ)
ExtractedMetadata ==
    {[summary |-> FALSE, keywords |-> <<>>]}
    \cup {[summary |-> TRUE, keywords |-> k] :
             k \in {<<>>, << <<"a">> >>, << <<"a">>, <<"a">> >>,
                    << <<"a">>, <<"a", ".", "b">> >>}}

\* a stored document: status, whether contentEmbedding.vector is there, and
\* of its content whether another field than the keywords holds text
\* (summary) and the keywords
Stored(status, vector, summary, keywords) ==
    [status |-> status, vector |-> vector, summary |-> summary,
     keywords |-> keywords]

\* an uploaded document: no content yet
PendingDoc == Stored("pending", FALSE, FALSE, <<>>)

\* a document id under which nothing is stored
AbsentDoc == Stored("absent", FALSE, FALSE, <<>>)

\* a document processed and embedded once
ReadyDoc == Stored("ready", TRUE, TRUE, << <<"a">> >>)

\* build_embedding_text(content) is not empty: a non-empty summary or a
\* non-empty list among the other fields gives a part
build_embedding_text(content) == content.summary \/ content.keywords # <<>>

NoResult == [success |-> FALSE, skipped |-> FALSE]

NoHandler ==
    [fn |-> "none", pc |-> "none", doc_id |-> "none", doc_data |-> PendingDoc,
     docs |-> <<>>, keywords |-> <<>>, update_failed |-> FALSE,
     keyword_counts |-> NoCounts, details |-> <<>>, result |-> NoResult]

NoHandlers == [h \in Invocations |-> NoHandler]

\* `docs_ref.where("status", "==", status).limit(limit)` then `query.get()`:
\* the snapshots of the matching documents, in id order
Where(status, limit) ==
    Take(SelectSeq([i \in 1..Len(StoredOrder) |->
                       [id |-> StoredOrder[i],
                        data |-> documents[StoredOrder[i]]]],
                   LAMBDA s : s.data.status = status),
         limit)

\* the update that stores an embedding: vector and status "ready" together
EmbeddingWrite(doc) == [doc EXCEPT !.vector = TRUE, !.status = "ready"]

\* reset_document_embedding's update, with the status left out
ResetWrite_FieldOnly(doc) == [doc EXCEPT !.vector = FALSE]

\* reset_document_embedding's update: contentEmbedding DELETE_FIELD and
\* status "metadata_ready" together
ResetWrite(doc) == [doc EXCEPT !.vector = FALSE, !.status = "metadata_ready"]

\* the function returns `result`; of its locals the document and the
\* snapshot it worked on last are kept for inspection
Answer(frame, result) ==
    [NoHandler EXCEPT !.fn = frame.fn, !.pc = "returned",
                      !.doc_id = frame.doc_id, !.doc_data = frame.doc_data,
                      !.update_failed = frame.update_failed,
                      !.details = frame.details, !.result = result]

\* the function is done with its document: the single-document functions
\* return, the batch functions append to `details` and go on with the loop
Finished(frame, success) ==
    IF frame.fn \in {"process_document", "generate_document_embedding"}
    THEN Answer(frame, [success |-> success, skipped |-> FALSE])
    ELSE [frame EXCEPT !.pc = "loop",
                       !.details = Append(@, [documentId |-> frame.doc_id,
                                              success |-> success])]

\* process_document lines 56-71: the snapshot is read (a missing document
\* is answered NOT_FOUND) and the status set
CallProcessDocument(h) ==
    /\ handlers[h].pc = "none"
    /\ \E d \in StoredDocs :
          /\ documents[d].status # "absent"
          /\ documents' = [documents EXCEPT ![d].status = "analyzing"]
          /\ handlers' = [handlers EXCEPT ![h] =
                 [NoHandler EXCEPT !.fn = "process_document", !.pc = "analyze",
                                   !.doc_id = d, !.doc_data = documents[d]]]
    /\ UNCHANGED <<document_keywords, runs, elements, maintenance, retrieval>>

\* process_document lines 73-103 (process_pending_documents 262-278): the
\* schema, the storage path and the analysis; one update stores the content
\* with status "metadata_ready" and leaves contentEmbedding as it is.  An
\* exception sets status "error" (lines 123-131, 296-300).
AnalyzeDocument(h) ==
    /\ handlers[h].pc = "analyze"
    /\ LET d == handlers[h].doc_id IN
       \/ /\ documents' = [documents EXCEPT ![d].status = "error"]
          /\ handlers' = [handlers EXCEPT ![h] = Finished(@, FALSE)]
       \/ \E metadata \in ExtractedMetadata :
             /\ documents' = [documents EXCEPT ![d] =
                    Stored("metadata_ready", @.vector, metadata.summary,
                           metadata.keywords)]
             /\ handlers' = [handlers EXCEPT ![h].pc = "keywords",
                                             ![h].keywords = metadata.keywords]
    /\ UNCHANGED <<document_keywords, runs, elements, maintenance, retrieval>>

\* process_document lines 105-131 (process_pending_documents 280-300):
\* create_element_documents, which may raise (status "error"), then
\* `if keywords: update_collection_keywords(...)`, whose one update the
\* server applies or which raises (caught and logged)
StoreKeywords(h) ==
    /\ handlers[h].pc = "keywords"
    /\ LET d == handlers[h].doc_id
           keywords == handlers[h].keywords IN
       \/ /\ documents' = [documents EXCEPT ![d].status = "error"]
          /\ handlers' = [handlers EXCEPT ![h] = Finished(@, FALSE)]
          /\ UNCHANGED document_keywords
       \/ \E ok \in BOOLEAN :
             /\ ~ok => keywords # <<>>
             /\ document_keywords' =
                    IF ok
                    THEN [k \in SafeKeys |->
                             IF k \in Updates(keywords)
                             THEN ApplyIncrement(document_keywords[k], 1)
                             ELSE document_keywords[k]]
                    ELSE document_keywords
             /\ handlers' = [handlers EXCEPT ![h] =
                    Finished([@ EXCEPT !.update_failed = @ \/ ~ok], TRUE)]
             /\ UNCHANGED documents
    /\ UNCHANGED <<runs, elements, maintenance, retrieval>>

\* process_pending_documents lines 234-235: the query for pending documents
CallProcessPendingDocuments(h) ==
    /\ handlers[h].pc = "none"
    /\ \E limit \in 1..MaxLimit :
          handlers' = [handlers EXCEPT ![h] =
              [NoHandler EXCEPT !.fn = "process_pending_documents",
                                !.pc = "loop",
                                !.docs = Where("pending", limit)]]
    /\ UNCHANGED <<documents, document_keywords, runs, elements, maintenance, retrieval>>

\* process_pending_documents lines 255-260: `for doc in docs:` sets the
\* status of the next document of the query's answer
PendingTurn(h) ==
    /\ handlers[h].fn = "process_pending_documents"
    /\ handlers[h].pc = "loop"
    /\ handlers[h].docs # <<>>
    /\ LET doc == Head(handlers[h].docs) IN
       /\ documents' = [documents EXCEPT ![doc.id].status = "analyzing"]
       /\ handlers' = [handlers EXCEPT ![h].pc = "analyze",
                                       ![h].doc_id = doc.id,
                                       ![h].doc_data = doc.data,
                                       ![h].docs = Tail(@)]
    /\ UNCHANGED <<document_keywords, runs, elements, maintenance, retrieval>>

\* the loop of a batch function is over: it returns its counts and details
ReturnBatch(h) ==
    /\ handlers[h].pc = "loop"
    /\ handlers[h].docs = <<>>
    /\ handlers' = [handlers EXCEPT ![h] =
           Answer(@, [success |-> TRUE, skipped |-> FALSE])]
    /\ UNCHANGED <<documents, document_keywords, runs, elements, maintenance, retrieval>>

\* generate_document_embedding lines 56-74: the snapshot is read (a missing
\* document is answered NOT_FOUND); a document that has a vector is answered {"success": True, "skipped": True} with no
\* write, any other gets status "embedding"
CallGenerateDocumentEmbedding(h) ==
    /\ handlers[h].pc = "none"
    /\ \E d \in StoredDocs :
          LET frame == [NoHandler EXCEPT !.fn = "generate_document_embedding",
                                         !.doc_id = d,
                                         !.doc_data = documents[d]] IN
          /\ documents[d].status # "absent"
          /\ IF documents[d].vector
             THEN /\ handlers' = [handlers EXCEPT ![h] =
                         Answer(frame, [success |-> TRUE, skipped |-> TRUE])]
                  /\ UNCHANGED documents
             ELSE /\ handlers' = [handlers EXCEPT ![h] =
                         [frame EXCEPT !.pc = "embed"]]
                  /\ documents' = [documents EXCEPT ![d].status = "embedding"]
    /\ UNCHANGED <<document_keywords, runs, elements, maintenance, retrieval>>

\* generate_document_embedding lines 76-109 (generate_embeddings_for_ready_docs
\* 157-183): the text is built from the content of the snapshot; no text or
\* a failing embedding request sets status "error", otherwise one update
\* stores the vector with status "ready"
EmbedDocument(h) ==
    /\ handlers[h].pc = "embed"
    /\ LET d == handlers[h].doc_id IN
       \E ok \in BOOLEAN :
          /\ ok => build_embedding_text(handlers[h].doc_data)
          /\ documents' = [documents EXCEPT ![d] =
                 IF ok THEN EmbeddingWrite(@) ELSE [@ EXCEPT !.status = "error"]]
          /\ handlers' = [handlers EXCEPT ![h] = Finished(@, ok)]
    /\ UNCHANGED <<document_keywords, runs, elements, maintenance, retrieval>>

\* generate_embeddings_for_ready_docs lines 143-144: the query
CallGenerateEmbeddingsForReadyDocs(h) ==
    /\ handlers[h].pc = "none"
    /\ \E limit \in 1..MaxLimit :
          handlers' = [handlers EXCEPT ![h] =
              [NoHandler EXCEPT !.fn = "generate_embeddings_for_ready_docs",
                                !.pc = "loop",
                                !.docs = Where("metadata_ready", limit)]]
    /\ UNCHANGED <<documents, document_keywords, runs, elements, maintenance, retrieval>>

\* generate_embeddings_for_ready_docs lines 150-155: the next document of the
\* answer gets status "embedding"
ReadyDocsTurn(h) ==
    /\ handlers[h].fn = "generate_embeddings_for_ready_docs"
    /\ handlers[h].pc = "loop"
    /\ handlers[h].docs # <<>>
    /\ LET doc == Head(handlers[h].docs) IN
       /\ documents' = [documents EXCEPT ![doc.id].status = "embedding"]
       /\ handlers' = [handlers EXCEPT ![h].pc = "embed",
                                       ![h].doc_id = doc.id,
                                       ![h].doc_data = doc.data,
                                       ![h].docs = Tail(@)]
    /\ UNCHANGED <<document_keywords, runs, elements, maintenance, retrieval>>

\* backfill_embeddings (admin.py) lines 118-119: the query
CallBackfillEmbeddings(h) ==
    /\ handlers[h].pc = "none"
    /\ \E limit \in 1..MaxLimit :
          handlers' = [handlers EXCEPT ![h] =
              [NoHandler EXCEPT !.fn = "backfill_embeddings", !.pc = "loop",
                                !.docs = Where("metadata_ready", limit)]]
    /\ UNCHANGED <<documents, document_keywords, runs, elements, maintenance, retrieval>>

\* backfill_embeddings lines 124-152: a document without text is passed
\* over, a failing request is counted, otherwise one update stores the
\* vector with status "ready"
BackfillTurn(h) ==
    /\ handlers[h].fn = "backfill_embeddings"
    /\ handlers[h].pc = "loop"
    /\ handlers[h].docs # <<>>
    /\ LET doc == Head(handlers[h].docs) IN
       \E ok \in BOOLEAN :
          /\ ok => build_embedding_text(doc.data)
          /\ documents' = [documents EXCEPT ![doc.id] =
                 IF ok THEN EmbeddingWrite(@) ELSE @]
          /\ handlers' = [handlers EXCEPT ![h].doc_id = doc.id,
                                          ![h].docs = Tail(@)]
    /\ UNCHANGED <<document_keywords, runs, elements, maintenance, retrieval>>

\* reset_document_embedding(collection_id, doc_id, dry_run=False): one
\* update, which raises on a missing document
ResetDocumentEmbedding ==
    /\ \E d \in StoredDocs :
          /\ documents[d].status # "absent"
          /\ documents' = [documents EXCEPT ![d] = ResetWrite(@)]
    /\ UNCHANGED <<handlers, document_keywords, runs, elements, maintenance, retrieval>>

\* rebuild_collection_keywords lines 176-186: the keywords of one document
RECURSIVE CountKeywords(_, _)
CountKeywords(keywords, keyword_counts) ==
    IF keywords = <<>> THEN keyword_counts
    ELSE CountKeywords(Tail(keywords),
             [keyword_counts EXCEPT ![safe_keyword(Head(keywords))] = @ + 1])

\* rebuild_collection_keywords lines 172-186: `for doc in docs:`
RECURSIVE ScanDocuments(_, _)
ScanDocuments(list, keyword_counts) ==
    IF list = <<>> THEN keyword_counts
    ELSE ScanDocuments(Tail(list),
             CountKeywords(Head(list).keywords, keyword_counts))

\* rebuild_collection_keywords lines 168-186: docs_ref.stream() and the
\* aggregation of what it read
CallRebuildCollectionKeywords(h) ==
    /\ handlers[h].pc = "none"
    /\ handlers' = [handlers EXCEPT ![h] =
           [NoHandler EXCEPT
               !.fn = "rebuild_collection_keywords", !.pc = "overwrite",
               !.keyword_counts =
                   ScanDocuments([i \in 1..Len(StoredOrder) |->
                                     documents[StoredOrder[i]]], NoCounts)]]
    /\ UNCHANGED <<documents, document_keywords, runs, elements, maintenance, retrieval>>

\* rebuild_collection_keywords lines 188-201: the map is replaced
OverwriteKeywords(h) ==
    /\ handlers[h].pc = "overwrite"
    /\ document_keywords' = handlers[h].keyword_counts
    /\ handlers' = [handlers EXCEPT ![h] =
           Answer(@, [success |-> TRUE, skipped |-> FALSE])]
    /\ UNCHANGED <<documents, runs, elements, maintenance, retrieval>>

(***************************************************************************)
(* Ingestion: create_element_documents on one parent document              *)
(*   (admin_site/functions/document_processing.py).  An element is its     *)
(*   `id` field, <<>> when the extraction gave none; an id is a tuple.     *)
(***************************************************************************)
\* `n` extracted elements whose ids follow `scheme`
Extracted(scheme, type, n) ==
    [k \in 1..n |-> [id |-> IF scheme = "none" THEN <<>>
                            ELSE <<scheme, type, k>>]]

\* what the analysis may return as tables, figures and images
ExtractedElements ==
    {[tables |-> Extracted(scheme, "table", nt),
      figures |-> Extracted(scheme, "figure", nf),
      images |-> Extracted(scheme, "image", ni)] :
        scheme \in {"none", "x", "y"}, nt \in {0, 30, 60}, nf \in {0, 30},
        ni \in {0, 1}}

\* `all_elements.append((type, element))` over a list of one type
Typed(type, list) ==
    [k \in 1..Len(list) |-> [element_type |-> type, element |-> list[k]]]

\* tables, figures and images in this order, then `all_elements[:50]`
AllElements(metadata) ==
    Take(Typed("table", metadata.tables) \o Typed("figure", metadata.figures)
         \o Typed("image", metadata.images), ElementCap)

\* `element.get("id", f"{element_type}_{created_count + 1}")` for the k-th
\* element written: created_count is k - 1
ElementId(all_elements, k) ==
    IF all_elements[k].element.id = <<>>
    THEN <<"default", all_elements[k].element_type, k>>
    ELSE all_elements[k].element.id

\* create_element_documents(db, collection_id, doc_id, metadata, doc_data):
\* elements_ref.document(element_id).set(element_doc) for each element kept;
\* documents of earlier runs under other ids are left in place
CreateElementDocuments ==
    /\ \E metadata \in ExtractedElements :
          LET all_elements == AllElements(metadata) IN
          elements' = elements \cup
              {ElementId(all_elements, k) : k \in 1..Len(all_elements)}
    /\ UNCHANGED <<document_keywords, runs, lifecycle, maintenance,
                   retrieval>>

(***************************************************************************)
(* The on_content_write trigger (cloud_functions/embedding_trigger.py).    *)
(*   Every write to the document fires one invocation that is handed the   *)
(*   document before and after that write.  A timestamp is a number, the   *)
(*   missing or empty one 0; the strings compare as the numbers do.        *)
(***************************************************************************)
MaxWrites == 2          \* client writes to the document
MaxTime == 2            \* timestamps 1..MaxTime
Times == 1..MaxTime

NoContent == [present |-> FALSE, contentUpdatedAt |-> 0, text |-> FALSE]
NoEmbedding == [present |-> FALSE, embeddedAt |-> 0]

\* the fields of the document: content (contentUpdatedAt, whether summary
\* or details hold text), contentEmbedding, and the rest of the fields
NoTriggerDoc ==
    [content |-> NoContent, contentEmbedding |-> NoEmbedding, other |-> 0]

\* what a client may write as content
Contents ==
    {[present |-> TRUE, contentUpdatedAt |-> t, text |-> x] :
        t \in 0..MaxTime, x \in BOOLEAN}

\* on_content_write lines 70-109 with the check of lines 96-101 left out
ShouldEmbed_NoUnchangedCheck(before_data, after_data) ==
    LET content == after_data.content
        existing_embedding == after_data.contentEmbedding
    IN  /\ content.present
        /\ content.contentUpdatedAt # 0
        /\ ~(/\ existing_embedding.present
             /\ existing_embedding.embeddedAt >= content.contentUpdatedAt)
        /\ content.text

\* on_content_write lines 70-109: none of the early returns is taken
ShouldEmbed(before_data, after_data) ==
    LET content == after_data.content
        existing_embedding == after_data.contentEmbedding
    IN  /\ content.present
        /\ content.contentUpdatedAt # 0
        /\ ~(/\ existing_embedding.present
             /\ existing_embedding.embeddedAt >= content.contentUpdatedAt)
        /\ before_data.content.contentUpdatedAt # content.contentUpdatedAt
        /\ content.text

\* a client writes the content or another field of the document; the write
\* is the root of a chain of invocations
ClientWrite ==
    /\ Len(chains) < MaxWrites
    /\ \E after \in {[trigger_doc EXCEPT !.content = c] : c \in Contents}
                    \cup {[trigger_doc EXCEPT !.other = 1 - @]} :
          /\ after # trigger_doc
          /\ trigger_doc' = after
          /\ events' = events \cup {[before |-> trigger_doc, after |-> after,
                                     root |-> Len(chains) + 1, depth |-> 0]}
    /\ chains' = Append(chains, 0)
    /\ UNCHANGED <<all_docs, bf, document_keywords, runs, lifecycle,
                   elements, retrieval>>

\* on_content_write(event): an early return, or _generate_embedding gives
\* None, or event.data.after.reference.update writes contentEmbedding with
\* embeddedAt now, which is a write to the document and fires the trigger
OnContentWrite ==
    /\ \E event \in events : \E ok \in BOOLEAN, now \in Times :
          /\ ok => ShouldEmbed(event.before, event.after)
          /\ trigger_doc' =
                 IF ok
                 THEN [trigger_doc EXCEPT !.contentEmbedding =
                          [present |-> TRUE, embeddedAt |-> now]]
                 ELSE trigger_doc
          /\ events' =
                 IF ok
                 THEN (events \ {event}) \cup
                      {[before |-> trigger_doc, after |-> trigger_doc',
                        root |-> event.root, depth |-> event.depth + 1]}
                 ELSE events \ {event}
          /\ chains' = IF ok THEN [chains EXCEPT ![event.root] = @ + 1]
                       ELSE chains
    /\ UNCHANGED <<all_docs, bf, document_keywords, runs, lifecycle,
                   elements, retrieval>>

(***************************************************************************)
(* batch_backfill (client_python/search_client.py) calling                 *)
(* backfill_embeddings (cloud_functions/backfill_embeddings.py)            *)
(***************************************************************************)
BackfillOrder == <<"b1", "b2">>    \* the collection, in stream order
BackfillDocs == Range(BackfillOrder)
BackfillCap == 200      \* `min(request.data.get('limit', 50), 200)`

\* a document: its content ("none", "empty": neither summary nor details,
\* "text"), content.contentUpdatedAt, and contentEmbedding with embeddedAt
BackfillDocStates ==
    {s \in [content : {"none", "empty", "text"}, contentUpdatedAt : 0..MaxTime,
            embedded : BOOLEAN, embeddedAt : 0..MaxTime] :
        /\ s.content = "none" => s.contentUpdatedAt = 0
        /\ ~s.embedded => s.embeddedAt = 0}

\* backfill_embeddings lines 124-141: does the document need an embedding
NeedsEmbedding(data) ==
    /\ data.content # "none"
    /\ \/ ~data.embedded
       \/ data.contentUpdatedAt > data.embeddedAt

\* backfill_embeddings lines 121-141: `to_process`
ToProcess ==
    SelectSeq(BackfillOrder, LAMBDA d : NeedsEmbedding(all_docs[d]))

NoBackfill ==
    [pc |-> "none", batch_size |-> 0,
     response |-> [processed |-> 0, remaining |-> 0, errors |-> {}]]

\* one turn of batch_backfill's `while True:`: backfill_embeddings is called
\* with limit batch_size.  It computes `remaining` from the documents it
\* found, then goes through to_process[:limit]: a document without summary
\* and details is passed over, a failing request puts the id in `errors`,
\* any other document gets its contentEmbedding.  batch_backfill leaves the
\* loop when the response says remaining == 0.
BatchBackfillTurn ==
    /\ bf.pc = "calling"
    /\ LET limit == Min(bf.batch_size, BackfillCap)
           to_process == ToProcess
           remaining == Max(0, Len(to_process) - limit)
           batch == Range(Take(to_process, limit))
       IN  \E failing \in SUBSET {d \in batch : all_docs[d].content = "text"} :
           \E now \in Times :
              LET done == {d \in batch : all_docs[d].content = "text"}
                             \ failing
              IN  /\ all_docs' =
                         [d \in BackfillDocs |->
                             IF d \in done
                             THEN [all_docs[d] EXCEPT !.embedded = TRUE,
                                                        !.embeddedAt = now]
                             ELSE all_docs[d]]
                  /\ bf' = [bf EXCEPT
                         !.pc = IF remaining = 0 THEN "returned" ELSE "calling",
                         !.response = [processed |-> Cardinality(done),
                                       remaining |-> remaining,
                                       errors |-> failing]]
    /\ UNCHANGED <<trigger_doc, events, chains, document_keywords, runs,
                   lifecycle, elements, retrieval>>

\* the trigger has nothing to do and batch_backfill is not running
MaintenanceIdle ==
    /\ trigger_doc = NoTriggerDoc
    /\ events = {}
    /\ chains = <<>>
    /\ all_docs = [d \in BackfillDocs |->
                        [content |-> "none", contentUpdatedAt |-> 0,
                         embedded |-> FALSE, embeddedAt |-> 0]]
    /\ bf = NoBackfill

\* no ingestion function runs and the documents are uploaded ones
IngestionIdle ==
    /\ documents = [d \in StoredDocs |-> PendingDoc]
    /\ handlers = NoHandlers
    /\ elements = {}
    /\ MaintenanceIdle

CollectionCall(collection_id, query, limit, threshold, exact, semantic, debug) ==
    [fn |-> IF debug THEN "search_collection_debug" ELSE "search_collection",
     collection_id |-> collection_id, query |-> query, limit |-> limit,
     threshold |-> threshold, exact_terms |-> exact,
     semantic_terms |-> semantic, phase |-> "exact",
     acc |-> [results |-> <<>>, seen_doc_ids |-> {}],
     doc_scores |-> <<>>, term_i |-> 1, near |-> <<>>]

ElementsCall(collection_id, query, limit, threshold) ==
    [fn |-> "search_elements", collection_id |-> collection_id,
     query |-> query, limit |-> limit, threshold |-> threshold,
     phase |-> "embed", near |-> <<>>]

KeywordCall(collection_id, term, n) ==
    [op |-> "keyword", collection |-> collection_id, term |-> term, limit |-> n]
EmbedCall(text) == [op |-> "embed", text |-> text]
NearestCall(pool, collection_id, n) ==
    [op |-> "nearest", pool |-> pool, collection |-> collection_id, limit |-> n]

\* `classification.get("secondary_confidence", 0)`
SecondaryConfidence(c) ==
    IF "secondary_confidence" \in DOMAIN c THEN c.secondary_confidence ELSE 0

\* `if classification.get("secondary_confidence", 0) > 0.3:`
SearchSecondary_AtCutoff(c) == SecondaryConfidence(c) >= SecondaryCutoff

SearchSecondary(c) == SecondaryConfidence(c) > SecondaryCutoff

(***************************************************************************)
(* Where a finished search_* call returns to: the caller in                *)
(* classify_and_search (lines 96-145), or the caller of a direct call.     *)
(***************************************************************************)
\* position in secondary_collections of the next collection of the loop
SecondaryIndex == Len(collections_searched)

DocsCall(c, collection_id, limit) ==
    CollectionCall(collection_id, req.query, limit, req.threshold,
                   c.exact_match_terms, c.semantic_search_terms, req.debugMode)

\* `primary_results = search_collection(...)` and the three like it: the
\* list a search call of the request returned, with the call's arguments
ResultSet(frame, ret) ==
    [fn |-> frame.fn, collection_id |-> frame.collection_id,
     limit |-> frame.limit, results |-> ret]

\* `ret` is the list returned; `frame` is the call's frame at its return,
\* kept for inspection when the call was a direct one.
Return(ret, frame) ==
    /\ UNCHANGED <<ingest, docs, elems, api_key, req, classification, rr,
                   score_call, schemas>>
    /\ result_sets' = IF pc = "call" THEN result_sets
                      ELSE Append(result_sets, ResultSet(frame, ret))
    /\ CASE pc = "call" ->
              /\ pc' = "returned"
              /\ response' = [kind |-> "list", results |-> ret]
              /\ sc' = [frame EXCEPT !.phase = "returned"]
              /\ UNCHANGED <<results, collections_searched>>
         [] pc = "primary_documents" ->
              /\ results' = results \o ret
              /\ collections_searched' =
                     Append(collections_searched, classification.primary_collection)
              /\ pc' = "primary_elements"
              /\ sc' = ElementsCall(classification.primary_collection, req.query,
                                    req.limit \div 2, req.threshold)
              /\ UNCHANGED response
         [] pc = "secondary_documents" ->
              /\ results' = results \o ret
              /\ collections_searched' = Append(collections_searched, sc.collection_id)
              /\ pc' = "secondary_elements"
              /\ sc' = ElementsCall(sc.collection_id, req.query,
                                    (req.limit \div 2) \div 2, req.threshold)
              /\ UNCHANGED response
         [] pc \in {"primary_elements", "secondary_elements"} ->
              /\ results' = results \o ret
              /\ UNCHANGED <<collections_searched, response>>
              /\ IF /\ SearchSecondary(classification)
                    /\ SecondaryIndex <= Len(classification.secondary_collections)
                 THEN /\ pc' = "secondary_documents"
                      /\ sc' = DocsCall(classification,
                             classification.secondary_collections[SecondaryIndex],
                             req.limit \div 2)
                 ELSE /\ pc' = "merge"
                      /\ sc' = NoCall

(***************************************************************************)
(* search_collection, standard mode: the two phases                        *)
(***************************************************************************)
SearchCollectionExact ==
    /\ sc.fn = "search_collection" /\ sc.phase = "exact"
    /\ sc' = [sc EXCEPT !.phase = "semantic",
                        !.acc = ExactPhase(sc.exact_terms, sc.collection_id,
                                           sc.limit, sc.acc)]
    /\ calls' = calls \o [i \in 1..Len(sc.exact_terms) |->
                            KeywordCall(sc.collection_id, sc.exact_terms[i], sc.limit)]
    /\ UNCHANGED <<ingest, result_sets, docs, elems, api_key, pc, req, classification, results,
                   collections_searched, rr, score_call, schemas, response>>

SearchCollectionSemantic ==
    /\ sc.fn = "search_collection" /\ sc.phase = "semantic"
    /\ \E near \in NearestOutcomes(docs, DocCandidates(sc.collection_id), sc.limit) :
          LET acc == SemanticPhase(near, sc.collection_id, sc.threshold, sc.acc)
          IN  Return(StandardReturn(acc, sc.limit),
                     [sc EXCEPT !.acc = acc, !.near = near])
    /\ calls' = calls \o <<EmbedCall(SearchText(sc.semantic_terms, sc.query)),
                           NearestCall("documents", sc.collection_id, sc.limit)>>

(***************************************************************************)
(* search_collection_debug: phase 1, one step per semantic term, then the  *)
(* full-query pass with phase 4                                            *)
(***************************************************************************)
DebugExact ==
    /\ sc.fn = "search_collection_debug" /\ sc.phase = "exact"
    /\ sc' = [sc EXCEPT !.phase = "terms",
                        !.doc_scores = DebugExactPhase(sc.exact_terms,
                                           sc.collection_id, sc.limit, sc.doc_scores)]
    /\ calls' = calls \o [i \in 1..Len(sc.exact_terms) |->
                            KeywordCall(sc.collection_id, sc.exact_terms[i],
                                        sc.limit * 2)]
    /\ UNCHANGED <<ingest, result_sets, docs, elems, api_key, pc, req, classification, results,
                   collections_searched, rr, score_call, schemas, response>>

DebugSemanticTerm ==
    /\ sc.fn = "search_collection_debug" /\ sc.phase = "terms"
    /\ sc.term_i <= Len(sc.semantic_terms)
    /\ \E near \in NearestOutcomes(docs, DocCandidates(sc.collection_id), sc.limit * 2) :
          sc' = [sc EXCEPT !.term_i = @ + 1,
                           !.doc_scores = DebugSemanticDocs(near,
                                              sc.semantic_terms[sc.term_i],
                                              sc.doc_scores)]
    /\ calls' = calls \o <<EmbedCall(sc.semantic_terms[sc.term_i]),
                           NearestCall("documents", sc.collection_id, sc.limit * 2)>>
    /\ UNCHANGED <<ingest, result_sets, docs, elems, api_key, pc, req, classification, results,
                   collections_searched, rr, score_call, schemas, response>>

DebugFullQuery ==
    /\ sc.fn = "search_collection_debug" /\ sc.phase = "terms"
    /\ sc.term_i > Len(sc.semantic_terms)
    /\ \E near \in NearestOutcomes(docs, DocCandidates(sc.collection_id), sc.limit * 2) :
          LET ds == DebugFullDocs(near, sc.doc_scores)
          IN  Return(DebugReturn(ds, sc.collection_id, sc.threshold, sc.limit),
                     [sc EXCEPT !.doc_scores = ds, !.near = near])
    /\ calls' = calls \o <<EmbedCall(sc.query),
                           NearestCall("documents", sc.collection_id, sc.limit * 2)>>

(***************************************************************************)
(* search_elements                                                         *)
(***************************************************************************)
SearchElements ==
    /\ sc.fn = "search_elements" /\ sc.phase = "embed"
    /\ \E near \in NearestOutcomes(elems, ElementCandidates(sc.collection_id), sc.limit) :
          Return(SortByScore(ElementLoop(near, sc.collection_id, sc.threshold, <<>>)),
                 [sc EXCEPT !.near = near])
    /\ calls' = calls \o <<EmbedCall(sc.query),
                           NearestCall("elements", sc.collection_id, sc.limit)>>

\* A remote call of the running search (keyword lookup, embedding request,
\* nearest-neighbour query) raises; nothing in search_* or classify_and_search
\* catches it, so the request ends with the error.
SearchRaises ==
    /\ sc.fn # "none" /\ sc.phase # "returned"
    /\ pc' = "raised"
    /\ sc' = NoCall
    /\ response' = [kind |-> "error", code |-> "INTERNAL"]
    /\ UNCHANGED <<ingest, result_sets, docs, elems, api_key, req, classification, results,
                   collections_searched, rr, score_call, calls, schemas>>

(***************************************************************************)
(* classify_and_search                                                     *)
(***************************************************************************)
\* req.data, with or without a "query" entry
Requests ==
    [query : {<<>>, Query}, limit : 0..MaxRequestLimit, threshold : Thresholds,
     debugMode : BOOLEAN, enableRerank : BOOLEAN]
    \cup
    [limit : 0..MaxRequestLimit, threshold : Thresholds,
     debugMode : BOOLEAN, enableRerank : BOOLEAN]

\* `query = req.data.get("query", "")`
QueryOf(data) == IF "query" \in DOMAIN data THEN data.query ELSE <<>>

\* `if not query:`
InvalidQuery_Never(query) == FALSE

InvalidQuery(query) == query = <<>>

\* what classify_query may return: the parsed JSON of the model's answer
ExactTermLists == {<<>>, <<"K1">>}
SemanticTermLists == {<<>>, <<(<<"s1">>)>>}
Classifications ==
    [primary_collection : {"A"}, secondary_collections : {<<>>, <<"B">>},
     secondary_confidence : {25, 30, 31},
     exact_match_terms : ExactTermLists,
     semantic_search_terms : SemanticTermLists]
    \cup
    [primary_collection : {"A"}, secondary_collections : {<<>>, <<"B">>},
     exact_match_terms : ExactTermLists,
     semantic_search_terms : SemanticTermLists]

\* lines 55-69: read req.data, `if not query: raise INVALID_ARGUMENT`
Request ==
    /\ pc = "idle"
    /\ \E r \in Requests :
          /\ req' = [query |-> QueryOf(r), limit |-> r.limit,
                     threshold |-> r.threshold, debugMode |-> r.debugMode,
                     enableRerank |-> r.enableRerank]
          /\ IF InvalidQuery(QueryOf(r))
             THEN /\ pc' = "rejected"
                  /\ response' = [kind |-> "error", code |-> "INVALID_ARGUMENT"]
             ELSE /\ pc' = "schemas"
                  /\ UNCHANGED response
    /\ UNCHANGED <<ingest, result_sets, docs, elems, api_key, classification, results,
                   collections_searched, sc, rr, score_call, calls, schemas>>

\* lines 73-82: schemas_ref.get(); `if not schemas_docs: return {...}`
GetSchemas ==
    /\ pc = "schemas"
    /\ calls' = Append(calls, [op |-> "schemas"])
    /\ IF schemas = {}
       THEN /\ pc' = "done"
            /\ response' = [kind |-> "response", results |-> <<>>,
                            collectionsSearched |-> <<>>, rerankApplied |-> FALSE]
       ELSE /\ pc' = "classify"
            /\ UNCHANGED response
    /\ UNCHANGED <<ingest, result_sets, docs, elems, api_key, req, classification, results,
                   collections_searched, sc, rr, score_call, schemas>>

\* line 85, classify_query returning; lines 88-105 start the primary search
Classify ==
    /\ pc = "classify"
    /\ api_key
    /\ \E c \in Classifications :
          /\ classification' = c
          /\ sc' = DocsCall(c, c.primary_collection, req.limit)
    /\ calls' = Append(calls, [op |-> "classify"])
    /\ pc' = "primary_documents"
    /\ UNCHANGED <<ingest, result_sets, docs, elems, api_key, req, results, collections_searched,
                   rr, score_call, schemas, response>>

\* classify_query raising: no API key (before any call), the model call
\* failing, or json.loads failing on its answer
ClassifyFails_Retry ==
    /\ pc = "classify"
    /\ calls' = Append(calls, [op |-> "classify"])
    /\ pc' = IF Len(calls) < 2 THEN "classify" ELSE "raised"
    /\ response' = IF Len(calls) < 2 THEN response
                   ELSE [kind |-> "error", code |-> "INTERNAL"]
    /\ UNCHANGED <<ingest, result_sets, docs, elems, api_key, req, classification, results,
                   collections_searched, sc, rr, score_call, schemas>>

ClassifyFails ==
    /\ pc = "classify"
    /\ calls' = IF api_key THEN Append(calls, [op |-> "classify"]) ELSE calls
    /\ pc' = "raised"
    /\ response' = [kind |-> "error", code |-> "INTERNAL"]
    /\ UNCHANGED <<ingest, result_sets, docs, elems, api_key, req, classification, results,
                   collections_searched, sc, rr, score_call, schemas>>

FinalResponse(list, rerank_applied) ==
    [kind |-> "response", results |-> list,
     collectionsSearched |-> collections_searched,
     rerankApplied |-> rerank_applied]

\* `if results and enable_rerank and len(results) > 1:`
WantsRerank(list) == list # <<>> /\ req.enableRerank /\ Len(list) > 1

\* lines 147-159: the merge sort; without reranking `results = results[:limit]`
Merge_Unsorted ==
    /\ pc = "merge"
    /\ results' = results
    /\ IF WantsRerank(results')
       THEN /\ pc' = "rerank"
            /\ UNCHANGED response
       ELSE /\ pc' = "done"
            /\ response' = FinalResponse(Take(results', req.limit), FALSE)
    /\ UNCHANGED <<ingest, result_sets, docs, elems, api_key, req, classification,
                   collections_searched, sc, rr, score_call, calls, schemas>>

Merge ==
    /\ pc = "merge"
    /\ results' = SortByScore(results)
    /\ IF WantsRerank(results')
       THEN /\ pc' = "rerank"
            /\ UNCHANGED response
       ELSE /\ pc' = "done"
            /\ response' = FinalResponse(Take(results', req.limit), FALSE)
    /\ UNCHANGED <<ingest, result_sets, docs, elems, api_key, req, classification,
                   collections_searched, sc, rr, score_call, calls, schemas>>

\* line 155: rerank_results(query, classification, results, limit), called by
\* classify_and_search (pc = "rerank") or directly (pc = "rerank_call")
Rerank_Again ==
    /\ pc \in {"rerank", "rerank_call"}
    /\ \E o \in RerankOutcomes(results, req.limit) :
          /\ rr' = [outcome |-> o.outcome, input |-> results, limit |-> req.limit,
                    ranked_indices |-> o.ranked_indices, built |-> o.built,
                    returned |-> o.returned]
          /\ calls' = IF o.outcome \in {"empty", "no_key"} THEN calls
                      ELSE Append(calls, [op |-> "rerank"])
          /\ IF pc = "rerank" /\ rr = NoRerank
             THEN UNCHANGED <<pc, response>>
             ELSE IF pc = "rerank"
             THEN /\ pc' = "done"
                  /\ response' = FinalResponse(o.returned, TRUE)
             ELSE /\ pc' = "returned"
                  /\ response' = [kind |-> "list", results |-> o.returned]
    /\ UNCHANGED <<ingest, result_sets, docs, elems, api_key, req, classification,
                   results, collections_searched, sc, score_call, schemas>>

Rerank ==
    /\ pc \in {"rerank", "rerank_call"}
    /\ \E o \in RerankOutcomes(results, req.limit) :
          /\ rr' = [outcome |-> o.outcome, input |-> results, limit |-> req.limit,
                    ranked_indices |-> o.ranked_indices, built |-> o.built,
                    returned |-> o.returned]
          /\ calls' = IF o.outcome \in {"empty", "no_key"} THEN calls
                      ELSE Append(calls, [op |-> "rerank"])
          /\ IF pc = "rerank"
             THEN /\ pc' = "done"
                  /\ response' = FinalResponse(o.returned, TRUE)
             ELSE /\ pc' = "returned"
                  /\ response' = [kind |-> "list", results |-> o.returned]
    /\ UNCHANGED <<ingest, result_sets, docs, elems, api_key, req, classification, results,
                   collections_searched, sc, score_call, schemas>>

(***************************************************************************)
(* calculate_relevance_score called on two similarities                    *)
(***************************************************************************)
CalculateScore ==
    /\ ~score_call.done
    /\ score_call.similarity # <<>>
    /\ score_call' = [score_call EXCEPT
                         !.done = TRUE,
                         !.score = <<calculate_relevance_score(score_call.similarity[1]),
                                     calculate_relevance_score(score_call.similarity[2])>>]
    /\ UNCHANGED <<ingest, result_sets, docs, elems, api_key, pc, req, classification, results,
                   collections_searched, sc, rr, calls, schemas, response>>

(***************************************************************************)
(* Specification of one classify_and_search request                        *)
(***************************************************************************)
\* a stored document / element; sims = {} when it holds no vector
Doc(collection, keywords, sims) ==
    [collection |-> collection, keywords |-> keywords,
     hasVector |-> sims # {}, sims |-> sims]

Elem(collectionId, parentDocumentId, status, sims) ==
    [collectionId |-> collectionId, parentDocumentId |-> parentDocumentId,
     status |-> status, hasVector |-> sims # {}, sims |-> sims]

\* a store as ingestion leaves it: d1 has its metadata but no embedding yet,
\* e2 was created (pending) and not embedded yet
RequestDocs ==
    [d \in DocIds |->
        CASE d = "d1" -> Doc("A", {"K1"}, {})
          [] d = "d2" -> Doc("A", {"K2"}, {20, 80})
          [] d = "d3" -> Doc("B", {"K1"}, {70})]

RequestElems ==
    [e \in ElemIds |->
        CASE e = "e1" -> Elem("A", "d2", "ready", {20, 70})
          [] e = "e2" -> Elem("A", "d2", "pending", {})
          [] e = "e3" -> Elem("B", "d3", "ready", {70})]

Init ==
    /\ docs = RequestDocs
    /\ elems = RequestElems
    /\ api_key \in BOOLEAN
    /\ schemas \in {{}, Collections}
    /\ pc = "idle"
    /\ req = NoRequest
    /\ classification = NoClassification
    /\ results = <<>>
    /\ result_sets = <<>>
    /\ collections_searched = <<>>
    /\ sc = NoCall
    /\ rr = NoRerank
    /\ score_call = NoScoreCall
    /\ calls = <<>>
    /\ response = NoResponse
    /\ document_keywords = NoCounts
    /\ runs = NoRuns
    /\ IngestionIdle

Next ==
    \/ Request
    \/ GetSchemas
    \/ Classify
    \/ ClassifyFails
    \/ SearchCollectionExact
    \/ SearchCollectionSemantic
    \/ DebugExact
    \/ DebugSemanticTerm
    \/ DebugFullQuery
    \/ SearchElements
    \/ SearchRaises
    \/ Merge
    \/ Rerank

Spec == Init /\ [][Next]_vars

(***************************************************************************)
(* Specification of one direct search_collection / search_elements call,   *)
(* over every store content and argument of the bounded sets               *)
(***************************************************************************)
SearchDocs ==
    {[d \in DocIds |->
         CASE d = "d1" -> Doc("A", k1, SimValues)
           [] d = "d2" -> Doc("A", k2, SimValues)
           [] d = "d3" -> Doc("B", {"K1"}, SimValues)] :
     k1 \in SUBSET Keywords, k2 \in SUBSET Keywords}

SearchElems ==
    {[e \in ElemIds |->
         CASE e = "e1" -> Elem("A", "d1", "ready", SimValues)
           [] e = "e2" -> Elem("A", "d2", st,
                               IF st = "ready" THEN SimValues ELSE {})
           [] e = "e3" -> Elem("B", "d3", "ready", SimValues)] :
     st \in {"pending", "ready", "error"}}

DirectExactTermLists == {<<>>, <<"K1">>, <<"K1", "K2">>, <<"K1", "K1">>}

\* the classifier's answer to "AHV85003 SiC driver" (prompt of classify_query)
SiCDriverTerms == <<(<<"SiC", "driver">>), (<<"gate", "driver">>)>>

DirectCalls ==
    {CollectionCall("A", Query, limit, threshold, exact_terms, semantic_terms,
                    debug_mode) :
        limit \in 1..MaxLimit, threshold \in Thresholds,
        exact_terms \in DirectExactTermLists,
        semantic_terms \in SemanticTermLists, debug_mode \in BOOLEAN}
    \cup
    {CollectionCall("A", Query, limit, threshold, exact_terms, SiCDriverTerms,
                    FALSE) :
        limit \in 1..MaxLimit, threshold \in Thresholds,
        exact_terms \in DirectExactTermLists}

DirectElementCalls ==
    {ElementsCall("A", Query, limit, threshold) :
        limit \in 1..MaxLimit, threshold \in Thresholds}

InitSearch ==
    /\ \/ /\ docs \in SearchDocs
          /\ elems = RequestElems
          /\ sc \in DirectCalls
       \/ /\ docs = RequestDocs
          /\ elems \in SearchElems
          /\ sc \in DirectElementCalls
    /\ api_key = TRUE
    /\ schemas = Collections
    /\ pc = "call"
    /\ req = NoRequest
    /\ classification = NoClassification
    /\ results = <<>>
    /\ result_sets = <<>>
    /\ collections_searched = <<>>
    /\ rr = NoRerank
    /\ score_call = NoScoreCall
    /\ calls = <<>>
    /\ response = NoResponse
    /\ document_keywords = NoCounts
    /\ runs = NoRuns
    /\ IngestionIdle

NextSearch ==
    \/ SearchCollectionExact
    \/ SearchCollectionSemantic
    \/ DebugExact
    \/ DebugSemanticTerm
    \/ DebugFullQuery
    \/ SearchElements
    \/ SearchRaises

SpecSearch == InitSearch /\ [][NextSearch]_vars

(***************************************************************************)
(* Specification of one direct rerank_results call                         *)
(***************************************************************************)
\* merged results as classify_and_search hands them over: sorted by score
RerankSample ==
    <<ExactResult("d1", "A"), SemanticResult("d2", "A", 70),
      SemanticResult("d3", "B", 70), SemanticResult("d1", "B", 20),
      SemanticResult("d3", "A", 20)>>

InitRerank ==
    /\ docs = RequestDocs
    /\ elems = RequestElems
    /\ api_key \in BOOLEAN
    /\ schemas = Collections
    /\ pc = "rerank_call"
    /\ \E l \in 0..MaxLimit : req = [query |-> Query, limit |-> l]
    /\ classification = NoClassification
    /\ \E n \in 0..Len(RerankSample) : results = Take(RerankSample, n)
    /\ result_sets = <<>>
    /\ collections_searched = <<>>
    /\ sc = NoCall
    /\ rr = NoRerank
    /\ score_call = NoScoreCall
    /\ calls = <<>>
    /\ response = NoResponse
    /\ document_keywords = NoCounts
    /\ runs = NoRuns
    /\ IngestionIdle

NextRerank == Rerank

SpecRerank == InitRerank /\ [][NextRerank]_vars

(***************************************************************************)
(* Specification of the element store's life and one search_elements call: *)
(* create_element_documents and the element embedding handlers run any     *)
(* number of times, then search_elements is called once.                   *)
(***************************************************************************)
\* the subcollection <collection>_documents/<doc_id>/elements
ElementsOf(doc_id) ==
    CASE doc_id = "d2" -> {"e1", "e2"}
      [] doc_id = "d3" -> {"e3"}
      [] OTHER -> {}

ParentOf(e) == CHOOSE d \in DocIds : e \in ElementsOf(d)

\* an element document that does not exist (yet)
NoElems ==
    [e \in ElemIds |->
        Elem(RequestDocs[ParentOf(e)].collection, ParentOf(e), "absent", {})]

\* create_element_documents(db, collection_id, doc_id, metadata, doc_data):
\* elements_ref.document(element_id).set(element_doc) for the elements S the
\* metadata lists; set() replaces the whole document, embedding included
CreateElements ==
    /\ pc = "store"
    /\ \E d \in DocIds : \E S \in SUBSET ElementsOf(d) :
          /\ S # {}
          /\ elems' = [e \in ElemIds |->
                           IF e \in S
                           THEN Elem(docs[d].collection, d, "pending", {})
                           ELSE elems[e]]
    /\ UNCHANGED <<ingest, result_sets, docs, api_key, pc, req, classification, results,
                   collections_searched, sc, rr, score_call, calls, schemas,
                   response>>

\* one turn of the loop of generate_element_embeddings_for_document or
\* generate_all_element_embeddings on an element that was pending when the
\* handler queried: the update sets the vector and status "ready", or the
\* except branch sets status "error" and leaves the rest of the document.
\* The element may have been embedded by another handler in between.
EmbedElement ==
    /\ pc = "store"
    /\ \E e \in ElemIds : \E ok \in BOOLEAN :
          /\ elems[e].status # "absent"
          /\ elems' = [elems EXCEPT ![e] =
                 IF ok THEN Elem(@.collectionId, @.parentDocumentId, "ready",
                                 SimValues)
                 ELSE [@ EXCEPT !.status = "error"]]
    /\ UNCHANGED <<ingest, result_sets, docs, api_key, pc, req, classification, results,
                   collections_searched, sc, rr, score_call, calls, schemas,
                   response>>

\* search_elements(db, collection_id, query, limit, threshold) is called
CallSearchElements ==
    /\ pc = "store"
    /\ pc' = "call"
    /\ \E c \in Collections, limit \in 1..MaxLimit, threshold \in Thresholds :
          sc' = ElementsCall(c, Query, limit, threshold)
    /\ UNCHANGED <<ingest, result_sets, docs, elems, api_key, req, classification,
                   results, collections_searched, rr, score_call, calls,
                   schemas, response>>

InitElements ==
    /\ docs = RequestDocs
    /\ elems = NoElems
    /\ api_key = TRUE
    /\ schemas = Collections
    /\ pc = "store"
    /\ req = NoRequest
    /\ classification = NoClassification
    /\ results = <<>>
    /\ result_sets = <<>>
    /\ collections_searched = <<>>
    /\ sc = NoCall
    /\ rr = NoRerank
    /\ score_call = NoScoreCall
    /\ calls = <<>>
    /\ response = NoResponse
    /\ document_keywords = NoCounts
    /\ runs = NoRuns
    /\ IngestionIdle

NextElements ==
    \/ CreateElements
    \/ EmbedElement
    \/ CallSearchElements
    \/ SearchElements

SpecElements == InitElements /\ [][NextElements]_vars

(***************************************************************************)
(* Specification of concurrent process_document runs on different          *)
(* documents of one collection                                             *)
(***************************************************************************)
InitKeywords ==
    /\ docs = RequestDocs
    /\ elems = NoElems
    /\ api_key = TRUE
    /\ schemas = Collections
    /\ pc = "ingest"
    /\ req = NoRequest
    /\ classification = NoClassification
    /\ results = <<>>
    /\ result_sets = <<>>
    /\ collections_searched = <<>>
    /\ sc = NoCall
    /\ rr = NoRerank
    /\ score_call = NoScoreCall
    /\ calls = <<>>
    /\ response = NoResponse
    /\ document_keywords = InitialCounts
    /\ runs = [r \in Runs |-> [NoRuns[r] EXCEPT !.pc = "start"]]
    /\ IngestionIdle

NextKeywords ==
    \/ \E r \in Runs : Analyze(r)
    \/ \E r \in Runs : UpdateCollectionKeywords(r)

SpecKeywords == InitKeywords /\ [][NextKeywords]_vars

(***************************************************************************)
(* Specification of the ingestion functions running on the documents of    *)
(* one collection of one document, in any order and interleaving.  The     *)
(* document starts as uploaded or as processed and embedded once, and the  *)
(* counters start as the keywords of the stored documents.                 *)
(***************************************************************************)
InitLifecycle ==
    /\ docs = RequestDocs
    /\ elems = NoElems
    /\ api_key = TRUE
    /\ schemas = Collections
    /\ pc = "ingest"
    /\ req = NoRequest
    /\ classification = NoClassification
    /\ results = <<>>
    /\ result_sets = <<>>
    /\ collections_searched = <<>>
    /\ sc = NoCall
    /\ rr = NoRerank
    /\ score_call = NoScoreCall
    /\ calls = <<>>
    /\ response = NoResponse
    /\ runs = NoRuns
    /\ documents \in {[d \in StoredDocs |-> IF d = "d1" THEN doc ELSE AbsentDoc] :
                          doc \in {PendingDoc, ReadyDoc}}
    /\ document_keywords =
           ScanDocuments([i \in 1..Len(StoredOrder) |->
                             documents[StoredOrder[i]]], NoCounts)
    /\ handlers = NoHandlers
    /\ elements = {}
    /\ MaintenanceIdle

NextLifecycle ==
    \/ \E h \in Invocations : CallProcessDocument(h)
    \/ \E h \in Invocations : AnalyzeDocument(h)
    \/ \E h \in Invocations : StoreKeywords(h)
    \/ \E h \in Invocations : CallProcessPendingDocuments(h)
    \/ \E h \in Invocations : PendingTurn(h)
    \/ \E h \in Invocations : ReturnBatch(h)
    \/ \E h \in Invocations : CallGenerateDocumentEmbedding(h)
    \/ \E h \in Invocations : EmbedDocument(h)
    \/ \E h \in Invocations : CallGenerateEmbeddingsForReadyDocs(h)
    \/ \E h \in Invocations : ReadyDocsTurn(h)
    \/ \E h \in Invocations : CallBackfillEmbeddings(h)
    \/ \E h \in Invocations : BackfillTurn(h)
    \/ ResetDocumentEmbedding

SpecLifecycle == InitLifecycle /\ [][NextLifecycle]_vars

(***************************************************************************)
(* Specification of process_document and rebuild_collection_keywords       *)
(* running on one collection of two documents, in any order and            *)
(* interleaving                                                            *)
(***************************************************************************)
InitRebuild ==
    /\ docs = RequestDocs
    /\ elems = NoElems
    /\ api_key = TRUE
    /\ schemas = Collections
    /\ pc = "ingest"
    /\ req = NoRequest
    /\ classification = NoClassification
    /\ results = <<>>
    /\ result_sets = <<>>
    /\ collections_searched = <<>>
    /\ sc = NoCall
    /\ rr = NoRerank
    /\ score_call = NoScoreCall
    /\ calls = <<>>
    /\ response = NoResponse
    /\ runs = NoRuns
    /\ documents \in [StoredDocs -> {PendingDoc, ReadyDoc}]
    /\ document_keywords =
           ScanDocuments([i \in 1..Len(StoredOrder) |->
                             documents[StoredOrder[i]]], NoCounts)
    /\ handlers = NoHandlers
    /\ elements = {}
    /\ MaintenanceIdle

NextRebuild ==
    \/ \E h \in Invocations : CallProcessDocument(h)
    \/ \E h \in Invocations : AnalyzeDocument(h)
    \/ \E h \in Invocations : StoreKeywords(h)
    \/ \E h \in Invocations : CallRebuildCollectionKeywords(h)
    \/ \E h \in Invocations : OverwriteKeywords(h)

SpecRebuild == InitRebuild /\ [][NextRebuild]_vars

(***************************************************************************)
(* Specification of process_pending_documents called concurrently on one   *)
(* collection of two uploaded documents                                    *)
(***************************************************************************)
InitPending ==
    /\ docs = RequestDocs
    /\ elems = NoElems
    /\ api_key = TRUE
    /\ schemas = Collections
    /\ pc = "ingest"
    /\ req = NoRequest
    /\ classification = NoClassification
    /\ results = <<>>
    /\ result_sets = <<>>
    /\ collections_searched = <<>>
    /\ sc = NoCall
    /\ rr = NoRerank
    /\ score_call = NoScoreCall
    /\ calls = <<>>
    /\ response = NoResponse
    /\ runs = NoRuns
    /\ documents = [d \in StoredDocs |-> PendingDoc]
    /\ document_keywords = NoCounts
    /\ handlers = NoHandlers
    /\ elements = {}
    /\ MaintenanceIdle

NextPending ==
    \/ \E h \in Invocations : CallProcessPendingDocuments(h)
    \/ \E h \in Invocations : PendingTurn(h)
    \/ \E h \in Invocations : AnalyzeDocument(h)
    \/ \E h \in Invocations : StoreKeywords(h)
    \/ \E h \in Invocations : ReturnBatch(h)

SpecPending == InitPending /\ [][NextPending]_vars

(***************************************************************************)
(* Specification of the runs of create_element_documents on one parent     *)
(* document, whose subcollection starts empty                              *)
(***************************************************************************)
InitElementDocs ==
    /\ docs = RequestDocs
    /\ elems = NoElems
    /\ api_key = TRUE
    /\ schemas = Collections
    /\ pc = "ingest"
    /\ req = NoRequest
    /\ classification = NoClassification
    /\ results = <<>>
    /\ result_sets = <<>>
    /\ collections_searched = <<>>
    /\ sc = NoCall
    /\ rr = NoRerank
    /\ score_call = NoScoreCall
    /\ calls = <<>>
    /\ response = NoResponse
    /\ runs = NoRuns
    /\ document_keywords = NoCounts
    /\ IngestionIdle

NextElementDocs == CreateElementDocuments

SpecElementDocs == InitElementDocs /\ [][NextElementDocs]_vars

(***************************************************************************)
(* Specification of the on_content_write trigger on one document that      *)
(* clients write to                                                        *)
(***************************************************************************)
InitTrigger ==
    /\ docs = RequestDocs
    /\ elems = NoElems
    /\ api_key = TRUE
    /\ schemas = Collections
    /\ pc = "ingest"
    /\ req = NoRequest
    /\ classification = NoClassification
    /\ results = <<>>
    /\ result_sets = <<>>
    /\ collections_searched = <<>>
    /\ sc = NoCall
    /\ rr = NoRerank
    /\ score_call = NoScoreCall
    /\ calls = <<>>
    /\ response = NoResponse
    /\ runs = NoRuns
    /\ document_keywords = NoCounts
    /\ documents = [d \in StoredDocs |-> PendingDoc]
    /\ handlers = NoHandlers
    /\ elements = {}
    /\ trigger_doc = NoTriggerDoc
    /\ events = {}
    /\ chains = <<>>
    /\ all_docs = [d \in BackfillDocs |->
                        [content |-> "none", contentUpdatedAt |-> 0,
                         embedded |-> FALSE, embeddedAt |-> 0]]
    /\ bf = NoBackfill

NextTrigger ==
    \/ ClientWrite
    \/ OnContentWrite

SpecTrigger == InitTrigger /\ [][NextTrigger]_vars

(***************************************************************************)
(* Specification of batch_backfill(client, collection_path, batch_size)    *)
(* on a collection in any state                                            *)
(***************************************************************************)
InitBackfill ==
    /\ docs = RequestDocs
    /\ elems = NoElems
    /\ api_key = TRUE
    /\ schemas = Collections
    /\ pc = "ingest"
    /\ req = NoRequest
    /\ classification = NoClassification
    /\ results = <<>>
    /\ result_sets = <<>>
    /\ collections_searched = <<>>
    /\ sc = NoCall
    /\ rr = NoRerank
    /\ score_call = NoScoreCall
    /\ calls = <<>>
    /\ response = NoResponse
    /\ runs = NoRuns
    /\ document_keywords = NoCounts
    /\ documents = [d \in StoredDocs |-> PendingDoc]
    /\ handlers = NoHandlers
    /\ elements = {}
    /\ trigger_doc = NoTriggerDoc
    /\ events = {}
    /\ chains = <<>>
    /\ all_docs \in [BackfillDocs -> BackfillDocStates]
    /\ \E batch_size \in 1..MaxLimit :
          bf = [NoBackfill EXCEPT !.pc = "calling", !.batch_size = batch_size]

NextBackfill == BatchBackfillTurn

SpecBackfill == InitBackfill /\ [][NextBackfill]_vars

(***************************************************************************)
(* Specification of calculate_relevance_score over a grid of similarities  *)
(***************************************************************************)
ScoreGrid == {NoSim} \cup (-100..100)

InitScore ==
    /\ docs = RequestDocs
    /\ elems = RequestElems
    /\ api_key = TRUE
    /\ schemas = Collections
    /\ pc = "score_call"
    /\ req = NoRequest
    /\ classification = NoClassification
    /\ results = <<>>
    /\ result_sets = <<>>
    /\ collections_searched = <<>>
    /\ sc = NoCall
    /\ rr = NoRerank
    /\ \E a \in ScoreGrid, b \in ScoreGrid :
          score_call = [done |-> FALSE, similarity |-> <<a, b>>, score |-> <<>>]
    /\ calls = <<>>
    /\ response = NoResponse
    /\ document_keywords = NoCounts
    /\ runs = NoRuns
    /\ IngestionIdle

NextScore == CalculateScore

SpecScore == InitScore /\ [][NextScore]_vars

(***************************************************************************)
(* Properties                                                              *)
(***************************************************************************)
\* a direct call of `fn` has returned; response.results is what it returned
Returned(fn) == pc = "returned" /\ sc.fn = fn

Ids(list) == {list[i].documentId : i \in 1..Len(list)}

\* a result without the fields rerank_results adds
Strip(r) == [f \in DOMAIN r \ {"rerankPosition", "originalPosition"} |-> r[f]]

Occurrences(list, x) == Cardinality({j \in 1..Len(list) : Strip(list[j]) = x})

\* C1: whatever ranked_indices the model returned, the list rerank_results
\* builds holds every input result exactly once, and the value returned is
\* its first `limit` entries.
C1_RerankIsPermutation ==
    rr.outcome = "reranked" =>
        /\ Len(rr.built) = Len(rr.input)
        /\ \A i \in 1..Len(rr.input) : Occurrences(rr.built, rr.input[i]) = 1
        /\ rr.returned = Take(rr.built, rr.limit)

\* C2: in the list a standard-mode search_collection call returns, every
\* `exact` result has weightedScore 0.95 and stands before every `semantic`
\* result.
C2_ExactBeforeSemantic ==
    Returned("search_collection") =>
        \A i \in 1..Len(response.results) :
            response.results[i].matchType = "exact" =>
                /\ response.results[i].weightedScore = ExactScore
                /\ \A j \in 1..Len(response.results) :
                       response.results[j].matchType = "semantic" => i < j

\* C3: a search_collection call, standard or debug, returns at most `limit`
\* entries.
C3_CollectionWithinLimit ==
    (Returned("search_collection") \/ Returned("search_collection_debug")) =>
        Len(response.results) <= sc.limit

\* C4: the `results` of a classify_and_search response never has more than
\* the request's `limit` entries, with reranking disabled, applied or fallen
\* back.
C4_ResponseWithinLimit ==
    (pc = "done" /\ response.kind = "response") =>
        Len(response.results) <= req.limit

\* C4 witness: reranking reordered more than `limit` merged results and the
\* response holds exactly `limit` of them.
C4_Witness ==
    /\ pc = "done" /\ response.kind = "response"
    /\ response.rerankApplied
    /\ rr.outcome = "reranked"
    /\ Len(rr.built) > req.limit
    /\ req.limit > 0
    /\ Len(response.results) = req.limit

\* C5: in the list one search_collection call returns (either mode) every
\* documentId appears at most once.
C5_DocumentIdsUnique ==
    (Returned("search_collection") \/ Returned("search_collection_debug")) =>
        \A i, j \in 1..Len(response.results) :
            response.results[i].documentId = response.results[j].documentId
                => i = j

\* C5 witness: a standard-mode call whose two exact terms both matched d1,
\* which the nearest-neighbour search returned as well; d1 is in the result
\* once, tagged exact.
C5_Witness ==
    /\ Returned("search_collection")
    /\ sc.exact_terms = <<"K1", "K2">>
    /\ docs["d1"].keywords = {"K1", "K2"}
    /\ \E k \in 1..Len(sc.near) : sc.near[k].id = "d1"
    /\ \E i \in 1..Len(response.results) :
          /\ response.results[i].documentId = "d1"
          /\ response.results[i].matchType = "exact"

\* the entries of doc_scores that matched at least one exact term
ExactEntries ==
    {k \in 1..Len(sc.doc_scores) :
        sc.doc_scores[k].scoreBreakdown.exactMatches # <<>>}

\* the returned result of the document of entry k, if any
ReturnedFor(k) ==
    {i \in 1..Len(response.results) :
        response.results[i].documentId = sc.doc_scores[k].documentId}

\* the scores of all signals a score breakdown records
Signals(b) ==
    (IF b.exactMatches # <<>> THEN {ExactScore} ELSE {})
    \cup {b.semanticScores[i].score : i \in 1..Len(b.semanticScores)}
    \cup {b.fullQueryScore[i].score : i \in 1..Len(b.fullQueryScore)}

MaxOf(S) == CHOOSE m \in S : \A x \in S : x <= m

\* C6 as stated: in debug mode every document that matched an exact term
\* has weightedScore exactly 0.95, whatever its semantic and full-query
\* scores, and is never removed by the threshold filter (it is missing from
\* the returned list only when the list is cut at `limit`).
C6_ExactScoreFixed ==
    Returned("search_collection_debug") =>
        \A k \in ExactEntries :
            /\ \A i \in ReturnedFor(k) :
                   response.results[i].weightedScore = ExactScore
            /\ ReturnedFor(k) = {} => Len(response.results) = sc.limit

\* C6 as amended: in debug mode every document that matched an exact term
\* is tagged exact and has the larger of 0.95 and its best semantic or
\* full-query score as weightedScore (0.95 unless one of those scores is
\* above 0.95), and is never removed by the threshold filter.
C6_ExactScoreAtLeast ==
    Returned("search_collection_debug") =>
        \A k \in ExactEntries :
            /\ \A i \in ReturnedFor(k) :
                   /\ response.results[i].matchType = "exact"
                   /\ response.results[i].weightedScore >= ExactScore
                   /\ response.results[i].weightedScore =
                          MaxOf(Signals(sc.doc_scores[k].scoreBreakdown))
            /\ ReturnedFor(k) = {} => Len(response.results) = sc.limit

\* C6 witness: a debug call with threshold 0.98 returned a document whose
\* only signal above the threshold is its exact match (score 0.95 < 0.98),
\* and another exact-matched document with a semantic score of 1.0.
C6_Witness ==
    /\ Returned("search_collection_debug")
    /\ sc.threshold = 98
    /\ \E i, j \in 1..Len(response.results) :
          /\ response.results[i].matchType = "exact"
          /\ response.results[i].weightedScore = ExactScore
          /\ response.results[j].matchType = "exact"
          /\ response.results[j].weightedScore = One

\* C7: in debug mode the weightedScore of every returned document is the
\* maximum over its matched signals, and a document without an exact match
\* is returned only if that maximum is >= threshold.
C7_DebugScoreIsMax ==
    Returned("search_collection_debug") =>
        \A i \in 1..Len(response.results) :
            LET r == response.results[i] IN
            /\ r.weightedScore = MaxOf(Signals(r.scoreBreakdown))
            /\ r.scoreBreakdown.exactMatches = <<>> => r.weightedScore >= sc.threshold

\* C7 witness: a returned document without exact match whose per-term score
\* is below its full-query score, and another document without exact match
\* that the threshold filter removed (the list is not full).
C7_Witness ==
    /\ Returned("search_collection_debug")
    /\ Len(response.results) < sc.limit
    /\ \E i \in 1..Len(response.results) :
          LET b == response.results[i].scoreBreakdown IN
          /\ b.exactMatches = <<>>
          /\ b.semanticScores # <<>> /\ b.fullQueryScore # <<>>
          /\ b.semanticScores[1].score < b.fullQueryScore[1].score
          /\ response.results[i].weightedScore = b.fullQueryScore[1].score
    /\ \E k \in 1..Len(sc.doc_scores) :
          /\ k \notin ExactEntries
          /\ ReturnedFor(k) = {}

\* C8: no `semantic` result of standard-mode search_collection and no
\* `element` result of search_elements has a non-null rawSimilarity below
\* `threshold`.
C8_RawSimilarityAtLeastThreshold ==
    (Returned("search_collection") \/ Returned("search_elements")) =>
        \A i \in 1..Len(response.results) :
            LET r == response.results[i] IN
            r.matchType \in {"semantic", "element"} =>
                (r.rawSimilarity = NoSim \/ r.rawSimilarity >= sc.threshold)

\* C8 witness: threshold 0.3, the nearest-neighbour search reported a
\* candidate with similarity 0.20 that no exact term matched; it is not in
\* the returned list, while another candidate was returned as semantic.
C8_Witness ==
    /\ Returned("search_collection")
    /\ sc.threshold = 30
    /\ \E k \in 1..Len(sc.near) :
          /\ sc.near[k].vector_distance = 20
          /\ sc.near[k].id \notin Ids(response.results)
    /\ \E i \in 1..Len(response.results) :
          response.results[i].matchType = "semantic"

\* C9: calculate_relevance_score is 0.0 for None and for similarities
\* <= 0.25, 1.0 for similarities >= 0.75, within [0, 1] everywhere and
\* monotonically non-decreasing.
C9_ScoreClampedMonotone ==
    score_call.done =>
        LET a  == score_call.similarity[1]
            b  == score_call.similarity[2]
            sa == score_call.score[1]
            sb == score_call.score[2]
        IN  /\ 0 <= sa /\ sa <= One
            /\ (a = NoSim \/ a <= 25) => sa = 0
            /\ (a # NoSim /\ a >= 75) => sa = One
            /\ (a # NoSim /\ b # NoSim /\ a <= b) => sa <= sb

\* C9 witness: two similarities inside the band with different scores
C9_Witness ==
    /\ score_call.done
    /\ score_call.similarity = <<50, 60>>
    /\ score_call.score = <<50, 70>>

\* C10: secondary collections are searched only when secondary_confidence
\* is > 0.3; at or below it, or without it, no secondary search is issued
\* and collectionsSearched holds the primary collection alone.
C10_SecondaryOnlyAboveCutoff ==
    LET c == classification
        low == \/ "secondary_confidence" \notin DOMAIN c
               \/ c.secondary_confidence <= 30
    IN  (c # NoClassification /\ low) =>
            /\ pc \notin {"secondary_documents", "secondary_elements"}
            /\ sc.fn # "none" => sc.collection_id = c.primary_collection
            /\ \A k \in 1..Len(calls) :
                   calls[k].op \in {"keyword", "nearest"} =>
                       calls[k].collection = c.primary_collection
            /\ \A k \in 1..Len(collections_searched) :
                   collections_searched[k] = c.primary_collection
            /\ (pc = "done" /\ response.kind = "response") =>
                   response.collectionsSearched = <<c.primary_collection>>

\* C10 witness: a finished request whose classification named secondary
\* collection B with confidence exactly 0.3: only A was searched.
C10_Witness ==
    /\ pc = "done" /\ response.kind = "response"
    /\ classification # NoClassification
    /\ classification.secondary_collections = <<"B">>
    /\ "secondary_confidence" \in DOMAIN classification
    /\ classification.secondary_confidence = 30
    /\ response.collectionsSearched = <<"A">>
    /\ \E k \in 1..Len(calls) : calls[k].op = "nearest"

\* the indices < n of `ranked`, each at its first occurrence, in listed order
RECURSIVE FirstOccurrences(_, _, _)
FirstOccurrences(ranked, n, listed) ==
    IF ranked = <<>> THEN listed
    ELSE FirstOccurrences(Tail(ranked), n,
             IF Head(ranked) < n /\ Head(ranked) \notin Range(listed)
             THEN Append(listed, Head(ranked)) ELSE listed)

\* the indices i..n-1 that are not in `listed`, ascending
RECURSIVE NotListed(_, _, _)
NotListed(i, n, listed) ==
    IF i >= n THEN <<>>
    ELSE (IF i \in Range(listed) THEN <<>> ELSE <<i>>) \o NotListed(i + 1, n, listed)

\* C11: when ranked_indices holds only non-negative integers, the list
\* rerank_results builds is: the first occurrence of each listed index that
\* is < len(results), in listed order, then every result not listed, in
\* ascending original index.
C11_RankedThenMissing ==
    (rr.outcome = "reranked" /\ \A k \in 1..Len(rr.ranked_indices) :
                                   rr.ranked_indices[k] >= 0) =>
        LET n == Len(rr.input)
            listed == FirstOccurrences(rr.ranked_indices, n, <<>>)
            order == listed \o NotListed(0, n, listed)
        IN  /\ Len(rr.built) = n
            /\ \A i \in 1..n :
                   /\ Strip(rr.built[i]) = rr.input[order[i] + 1]
                   /\ rr.built[i].originalPosition = order[i]

\* C11 witness: 5 results and ranked_indices [2, 0] give
\* [result2, result0, result1, result3, result4].
C11_Witness ==
    /\ rr.outcome = "reranked"
    /\ Len(rr.input) = 5
    /\ rr.ranked_indices = <<2, 0>>
    /\ [i \in 1..5 |-> Strip(rr.built[i])] =
           <<rr.input[3], rr.input[1], rr.input[2], rr.input[4], rr.input[5]>>

\* C12: without API key, when the model call raises, or when its answer is
\* not parseable JSON, rerank_results raises nothing and returns exactly the
\* first `limit` entries of its input, in input order and without rerank
\* fields.
C12_FailOpen ==
    rr.outcome \in {"no_key", "call_failed", "unparseable"} =>
        /\ pc \in {"returned", "done"}
        /\ response.kind \in {"list", "response"}
        /\ response.results = rr.returned
        /\ Len(rr.returned) = Min(rr.limit, Len(rr.input))
        /\ \A i \in 1..Len(rr.returned) :
               /\ rr.returned[i] = rr.input[i]
               /\ DOMAIN rr.returned[i] \cap
                      {"rerankPosition", "originalPosition"} = {}

\* C12 witness: the model's answer was not parseable; of 3 input results
\* and limit 2 the first two came back unchanged.
C12_Witness ==
    /\ rr.outcome = "unparseable"
    /\ Len(rr.input) = 3 /\ rr.limit = 2
    /\ response.results = <<rr.input[1], rr.input[2]>>

\* how many calls of kind `op` the log holds
CallCount(op) == Cardinality({k \in 1..Len(calls) : calls[k].op = op})

SearchOps == {"keyword", "embed", "nearest"}

\* C13: when classify_query fails, classify_and_search ends with the error
\* and no response; the classifier was called at most once (once when the
\* API key is set, not at all without it: no retry), and no keyword lookup,
\* embedding request, nearest-neighbour query or rerank call was issued.
C13_ClassifyFailureAborts ==
    /\ CallCount("classify") <= 1
    /\ (pc = "raised" /\ classification = NoClassification) =>
           /\ response.kind = "error"
           /\ CallCount("classify") = (IF api_key THEN 1 ELSE 0)
           /\ \A k \in 1..Len(calls) : calls[k].op \in {"schemas", "classify"}
           /\ sc = NoCall /\ rr = NoRerank /\ results = <<>>

\* C13 witness: the API key is set, the schemas were read, the classifier
\* was called once and failed; the request ended with the error.
C13_Witness ==
    /\ pc = "raised" /\ classification = NoClassification
    /\ api_key
    /\ calls = <<[op |-> "schemas"], [op |-> "classify"]>>
    /\ response.kind = "error"

\* C14: a search of one collection or element pool raising does not abort
\* the request: once the classification is there, classify_and_search never
\* ends with an error, the failing pool alone being left out of the response.
C14_SearchFailureNotFatal ==
    classification # NoClassification =>
        /\ pc # "raised"
        /\ response.kind # "error"

\* C15: a request whose query is missing or empty is rejected with
\* INVALID_ARGUMENT before any remote call: the schemas are not read, the
\* classifier is not called, nothing is embedded or searched.
C15_EmptyQueryRejected ==
    (req # NoRequest /\ req.query = <<>>) =>
        /\ pc = "rejected"
        /\ response = [kind |-> "error", code |-> "INVALID_ARGUMENT"]
        /\ calls = <<>>
        /\ sc = NoCall /\ rr = NoRerank
        /\ classification = NoClassification

\* C15 witness: a request with an empty query was rejected while schemas
\* exist and the API key is set, and nothing was called.
C15_Witness ==
    /\ pc = "rejected"
    /\ req # NoRequest /\ req.query = <<>>
    /\ schemas # {} /\ api_key
    /\ response.kind = "error" /\ response.code = "INVALID_ARGUMENT"
    /\ calls = <<>>

SearchStages ==
    {"primary_documents", "primary_elements",
     "secondary_documents", "secondary_elements"}

\* the kinds of the calls a step adds to the log
NewOps == {calls'[k].op : k \in (Len(calls) + 1)..Len(calls')}

Sorted(list) ==
    \A i, j \in 1..Len(list) :
        i < j => list[i].weightedScore >= list[j].weightedScore

\* what holds in every state of a request
StagesInOrderState ==
    /\ \A k \in 1..Len(calls) :
           calls[k].op \in SearchOps \cup {"rerank"} =>
               \E j \in 1..(k - 1) : calls[j].op = "classify"
    /\ sc # NoCall => (classification # NoClassification /\ pc \in SearchStages)
    /\ pc \in {"merge", "rerank"} => (sc = NoCall /\ rr = NoRerank)
    /\ pc = "rerank" => Sorted(results)
    /\ CallCount("rerank") <= 1
    /\ \A k \in 1..Len(calls) :
           calls[k].op = "rerank" => (k = Len(calls) /\ pc = "done")
    /\ rr # NoRerank => pc = "done"

\* what holds of every step of a request
StagesInOrderStep ==
    /\ NewOps \cap SearchOps # {} =>
           (classification # NoClassification /\ pc \in SearchStages)
    /\ pc = "merge" =>
           (calls' = calls /\ pc' \in {"rerank", "done"} /\ Sorted(results'))
    /\ rr' # rr => (pc = "rerank" /\ rr = NoRerank /\ pc' = "done")
    /\ pc \in {"rerank", "done"} => NewOps \subseteq {"rerank"}

\* C16: the stages of one classify_and_search run happen in the order
\* classify, search, merge, rerank: no search call is issued before the
\* classification has returned, the merge sort runs when no search is
\* running and none follows it, and rerank_results is invoked at most once,
\* on the merged and sorted list.
C16_StagesInOrder == [](StagesInOrderState) /\ [][StagesInOrderStep]_vars

\* C16 witness: a finished request that classified, searched the primary
\* and a secondary collection with their element pools, merged, and called
\* the reranker last.
C16_Witness ==
    /\ pc = "done" /\ response.kind = "response"
    /\ Len(result_sets) = 4
    /\ Len(calls) > 2
    /\ calls[2].op = "classify"
    /\ calls[Len(calls)].op = "rerank"
    /\ CallCount("nearest") = 4
    /\ rr.outcome = "reranked"

\* C17: one standard-mode search_collection call issues one keyword lookup
\* per exact term, in term order, and then exactly one embedding request,
\* for the semantic terms joined by single spaces when there is at least
\* one, for the full query otherwise.
C17_OneLookupPerTermOneEmbedding ==
    Returned("search_collection") =>
        LET n == Len(sc.exact_terms) IN
        /\ CallCount("keyword") = n
        /\ \A i \in 1..n :
               calls[i] = KeywordCall(sc.collection_id, sc.exact_terms[i], sc.limit)
        /\ CallCount("embed") = 1
        /\ calls[n + 1].op = "embed"
        /\ calls[n + 1].text = (IF Len(sc.semantic_terms) >= 1
                                THEN Join(sc.semantic_terms) ELSE sc.query)
        /\ Len(calls) = n + 2

\* C17 witness: exact term K1 and semantic terms "SiC driver", "gate driver"
\* gave one lookup for K1 and one embedding of "SiC driver gate driver",
\* which is not the query.
C17_Witness ==
    /\ Returned("search_collection")
    /\ sc.exact_terms = <<"K1">>
    /\ sc.semantic_terms = SiCDriverTerms
    /\ CallCount("keyword") = 1 /\ calls[1].term = "K1"
    /\ calls[2] = EmbedCall(<<"SiC", "driver", "gate", "driver">>)
    /\ calls[2].text # sc.query

\* the concatenation of the lists the search calls returned, in call order
RECURSIVE Concatenated(_)
Concatenated(sets) ==
    IF sets = <<>> THEN <<>>
    ELSE Head(sets).results \o Concatenated(Tail(sets))

\* `out` consists of Len(out) entries of `all` at distinct positions, and no
\* entry of `all` left out has a larger score than an entry of `out`
TopOf(out, all) ==
    \E f \in [1..Len(out) -> 1..Len(all)] :
        /\ \A i, j \in 1..Len(out) : f[i] = f[j] => i = j
        /\ \A i \in 1..Len(out) : out[i] = all[f[i]]
        /\ \A k \in 1..Len(all) :
               (\A i \in 1..Len(out) : f[i] # k) =>
                   \A i \in 1..Len(out) :
                       all[k].weightedScore <= out[i].weightedScore

\* C18: when reranking is disabled or at most one result exists, `results`
\* of the response is the first `limit` entries of the concatenation of all
\* per-collection and per-element lists sorted by non-increasing
\* weightedScore, nothing being deduplicated across the lists; the lists
\* are those of the primary documents (limit), the primary elements
\* (limit // 2) and, per secondary collection, its documents (limit // 2)
\* and its elements (half of that, integer division).
C18_MergedWithoutRerank ==
    (pc = "done" /\ response.kind = "response"
        /\ classification # NoClassification) =>
        LET all == Concatenated(result_sets)
            n == Len(result_sets)
        IN  /\ response.rerankApplied = (req.enableRerank /\ Len(all) > 1)
            /\ ~response.rerankApplied =>
                   /\ Len(response.results) = Min(req.limit, Len(all))
                   /\ Sorted(response.results)
                   /\ TopOf(response.results, all)
            /\ n >= 2 /\ n % 2 = 0
            /\ result_sets[1].limit = req.limit
            /\ result_sets[2].limit = req.limit \div 2
            /\ \A k \in 1..n :
                   /\ result_sets[k].fn =
                          (IF k % 2 = 0 THEN "search_elements"
                           ELSE IF req.debugMode THEN "search_collection_debug"
                           ELSE "search_collection")
                   /\ result_sets[k].collection_id =
                          collections_searched[(k + 1) \div 2]
                   /\ (k > 2 /\ k % 2 = 1) =>
                          result_sets[k].limit = req.limit \div 2
                   /\ (k > 2 /\ k % 2 = 0) =>
                          result_sets[k].limit = result_sets[k - 1].limit \div 2

\* C18 witness: limit 4, reranking disabled; document d2 and its own
\* element e1 are both in the response, the secondary collection's
\* documents were searched with limit 2 and its elements with limit 1, and
\* an element of the secondary collection is in the response as well.
C18_Witness ==
    /\ pc = "done" /\ response.kind = "response"
    /\ ~req.enableRerank /\ ~response.rerankApplied
    /\ req.limit = 4
    /\ Len(result_sets) = 4
    /\ result_sets[3].limit = 2 /\ result_sets[4].limit = 1
    /\ \E i, j, k \in 1..Len(response.results) :
          /\ response.results[i].matchType = "semantic"
          /\ response.results[i].documentId = "d2"
          /\ response.results[j].matchType = "element"
          /\ response.results[j].documentId = "d2"
          /\ response.results[k].matchType = "element"
          /\ response.results[k].collectionId = "B"

\* C19: search_elements issues exactly one embedding request, for the full
\* query, and every result it returns is an element whose collectionId is
\* the requested collection and whose status is "ready"; whatever element
\* creations and embeddings came before, a pending or failed element is not
\* returned.
C19_OnlyReadyElementsOfCollection ==
    Returned("search_elements") =>
        /\ CallCount("embed") = 1
        /\ calls = <<EmbedCall(sc.query),
                     NearestCall("elements", sc.collection_id, sc.limit)>>
        /\ \A i \in 1..Len(response.results) :
               LET r == response.results[i] IN
               /\ r.matchType = "element"
               /\ r.collectionId = sc.collection_id
               /\ elems[r.elementId].collectionId = sc.collection_id
               /\ elems[r.elementId].status = "ready"
               /\ r.documentId = elems[r.elementId].parentDocumentId

\* C19 witness: a search of collection A with room for two results returned
\* e1 alone, while e2 (same collection) holds a vector but is in status
\* "error" and e3 is ready in collection B.
C19_Witness ==
    /\ Returned("search_elements")
    /\ sc.collection_id = "A" /\ sc.limit = 2 /\ sc.threshold = 30
    /\ elems["e2"].status = "error" /\ elems["e2"].hasVector
    /\ elems["e3"].status = "ready"
    /\ Len(response.results) = 1
    /\ response.results[1].elementId = "e1"

\* the runs whose keyword update was applied and incremented key k
Incremented(k) ==
    {r \in Runs : runs[r].updated /\ k \in Updates(runs[r].keywords)}

\* C20: whatever the interleaving of concurrent process_document runs on
\* documents of one collection, no increment is lost: every counter
\* document_keywords[k] has grown by the number of runs whose keyword update
\* succeeded and whose keyword list holds k after sanitization.
C20_NoLostIncrement ==
    pc = "ingest" =>
        \A k \in SafeKeys :
            document_keywords[k] = InitialCounts[k] + Cardinality(Incremented(k))

\* C20 witness: both runs are done and updated; one extracted "a.b" and
\* the other "a/b" and "a_b", and the counter of "a_b" has grown by 2.
C20_Witness ==
    /\ pc = "ingest"
    /\ \A r \in Runs : runs[r].pc = "done" /\ runs[r].updated
    /\ runs["r1"].keywords = <<(<<"a", ".", "b">>)>>
    /\ runs["r2"].keywords = <<(<<"a", "/", "b">>), (<<"a", "_", "b">>)>>
    /\ document_keywords[<<"a", "_", "b">>] = InitialCounts[<<"a", "_", "b">>] + 2

\* C30: when rerank_results reorders successfully, every returned result's
\* rerankPosition is its index in the reordered list and its
\* originalPosition is its index in the input list, whatever ranked_indices
\* of non-negative integers the model returned (repeated and out-of-range
\* indices being skipped).
C30_PositionsAreIndices ==
    (rr.outcome = "reranked" /\ \A k \in 1..Len(rr.ranked_indices) :
                                   rr.ranked_indices[k] >= 0) =>
        \A i \in 1..Len(rr.returned) :
            LET r == rr.returned[i] IN
            /\ r.rerankPosition = i - 1
            /\ r.originalPosition \in 0..(Len(rr.input) - 1)
            /\ Strip(r) = rr.input[r.originalPosition + 1]

\* no invocation of an ingestion function is under way
Quiescent == \A h \in Invocations : handlers[h].pc \in {"none", "returned"}

\* C21: after any sequence of process_document, generate_document_embedding,
\* generate_embeddings_for_ready_docs, backfill_embeddings and
\* reset_document_embedding operations, once every operation has finished
\* and none has failed, a document that has a contentEmbedding vector has
\* status "ready".
C21_VectorOnlyWhenReady ==
    (Quiescent /\ \A h \in Invocations :
                     handlers[h].pc = "returned" => handlers[h].result.success) =>
        \A d \in StoredDocs :
            documents[d].vector => documents[d].status = "ready"

\* C28: in the step in which generate_document_embedding returns success:
\* true (the "skipped" answer included) while no other function is under
\* way, the document's status is "ready".
C28_SuccessMeansReady ==
    [][\A h \in Invocations :
          (/\ \A g \in Invocations \ {h} :
                  handlers[g].pc \in {"none", "returned"}
           /\ handlers[h].pc # "returned"
           /\ handlers'[h].pc = "returned"
           /\ handlers'[h].fn = "generate_document_embedding"
           /\ handlers'[h].result.success)
          => documents'[handlers'[h].doc_id].status = "ready"]_vars

\* a document whose status is "ready" has a vector
ReadyHasVector ==
    \A d \in StoredDocs :
        documents[d].status = "ready" => documents[d].vector

\* a step that makes the status "ready" leaves the vector stored, and a step
\* that removes the vector leaves a status other than "ready"
ReadyWithVectorStep ==
    \A d \in StoredDocs :
        /\ (documents[d].status # "ready" /\ documents'[d].status = "ready")
               => documents'[d].vector
        /\ (documents[d].vector /\ ~documents'[d].vector)
               => documents'[d].status # "ready"

\* C29: in every state the ingestion functions and reset_document_embedding
\* reach, a document whose status is "ready" has a contentEmbedding vector:
\* the status becomes "ready" only together with the vector, and the vector
\* is removed only together with a status other than "ready".
C29_ReadyHasVector == [](ReadyHasVector) /\ [][ReadyWithVectorStep]_vars

\* a document was embedded by generate_document_embedding and is "ready"
C29_Witness ==
    \E h \in Invocations :
        /\ handlers[h].fn = "generate_document_embedding"
        /\ handlers[h].pc = "returned"
        /\ handlers[h].result.success
        /\ ~handlers[h].result.skipped
        /\ documents[handlers[h].doc_id].status = "ready"
        /\ documents[handlers[h].doc_id].vector

\* what rebuild_collection_keywords would compute from the stored documents
RebuiltCounts ==
    ScanDocuments([i \in 1..Len(StoredOrder) |-> documents[StoredOrder[i]]],
                  NoCounts)

\* C25: after any sequence of successful process_document runs whose keyword
\* updates all went through (no rebuild having run), the incrementally
\* maintained document_keywords map equals the map
\* rebuild_collection_keywords would compute from the stored documents.
C25_IncrementalEqualsRebuild ==
    (/\ Quiescent
     /\ \A h \in Invocations :
           /\ handlers[h].fn \in {"none", "process_document"}
           /\ handlers[h].pc = "returned" =>
                  handlers[h].result.success /\ ~handlers[h].update_failed)
    => document_keywords = RebuiltCounts

\* C26: of two concurrent process_pending_documents calls, no document is
\* processed by both.
C26_ProcessedByOne ==
    \A g \in Invocations : \A h \in Invocations \ {g} :
        \A i \in 1..Len(handlers[g].details) :
            \A j \in 1..Len(handlers[h].details) :
                ~(/\ handlers[g].details[i].success
                  /\ handlers[h].details[j].success
                  /\ handlers[g].details[i].documentId =
                         handlers[h].details[j].documentId)

\* C27: when rebuild_collection_keywords and one process_document run, on a
\* document not processed before and with keywords that differ from one
\* another, have both finished, whatever their interleaving, every counter
\* equals the number of occurrences of its keyword in the stored documents.
C27_RebuildKeepsCounts ==
    \A p \in Invocations : \A r \in Invocations :
        (/\ handlers[p].fn = "process_document"
         /\ handlers[p].pc = "returned"
         /\ handlers[p].result.success
         /\ ~handlers[p].update_failed
         /\ handlers[p].doc_data.status = "pending"
         /\ LET keywords == documents[handlers[p].doc_id].keywords IN
                Cardinality(Updates(keywords)) = Len(keywords)
         /\ handlers[r].fn = "rebuild_collection_keywords"
         /\ handlers[r].pc = "returned")
        => document_keywords = RebuiltCounts

\* C22: after any sequence of process runs on one parent document, its
\* `elements` subcollection holds at most 50 element documents.
C22_AtMostFiftyElements == Cardinality(elements) <= ElementCap

\* no client write has led to more than one embedding write, and no write of
\* an invocation that a trigger write fired is waiting for its invocation
OneWritePerUpdate ==
    /\ \A k \in 1..Len(chains) : chains[k] <= 1
    /\ \A event \in events : event.depth <= 1

\* the invocation fired by a write of the trigger writes nothing and fires
\* nothing
OwnWriteIgnored ==
    \A event \in events \ events' :
        event.depth >= 1 =>
            /\ trigger_doc' = trigger_doc
            /\ events' = events \ {event}

\* C23: the on_content_write invocation fired by the trigger's own
\* contentEmbedding update performs no write, so every client write leads to
\* at most one embedding write and the chain of invocations ends there.
C23_NoTriggerLoop == [](OneWritePerUpdate) /\ [][OwnWriteIgnored]_vars

\* a client write was embedded, and the invocation fired by that embedding
\* write has run
C23_Witness ==
    \E k \in 1..Len(chains) :
        /\ chains[k] = 1
        /\ \A event \in events : event.root # k

\* C24: when batch_backfill has returned, every document with content has
\* an embedding.
C24_BackfillComplete ==
    bf.pc = "returned" =>
        \A d \in BackfillDocs :
            all_docs[d].content # "none" => all_docs[d].embedded

====
